---- MODULE Spec2Model ----
(***************************************************************************)
(* FlexCell NX: batch partitioner and batch sender of the email service,   *)
(* the PDF ingestion orchestrator, the utilities on values of type `any`   *)
(* (validateGames, migrateOrderItem, migrateHistoryBatch, loadFromStorage),*)
(* the state of the App component and what it keeps in localStorage, and   *)
(* the set-up and clean-up of the PDF worker.                              *)
(*                                                                         *)
(* Representation.  A text field of an order item that is only measured    *)
(* (os, clientDescription, colors of the items handed to the email         *)
(* service) is represented by its UTF-8 byte length: Buffer.byteLength is  *)
(* additive over the pieces of a template string, and the length is all    *)
(* the partitioner observes.  File names, which are parsed, are sequences  *)
(* of one-character strings.  Lengths in centimetres are integers counting *)
(* hundredths of a centimetre (the code rounds them to two decimals).      *)
(***************************************************************************)
EXTENDS Integers, Sequences, FiniteSets, TLC

\* ---------------------------------------------------------------- bounds
MaxItems == 5
MaxSendItems == 3
MaxFiles == 2
MaxPages == 3
MaxBatchItems == 10

\* ------------------------------------------------------ program constants
MAX_EMAIL_SIZE_BYTES == 4000

VARIABLES
  splitPc, splitArg, splitRet,                     \* splitIntoEmailBatches
  sendPc, sendItems, settings, batches, batchIdx,  \* sendBatchNotification
  result, sendLog,
  importPc, files, fileIdx, locals, pageNum,       \* importPdfsToItems
  importResult, trace,
  utilPc, utilFn, utilArg, utilRet,                \* calls of the utilities
  items, totalStock, history, activeTab,           \* state of the App component
  isImporting, emailSettings, isEmailModalOpen,
  handleImportPDF, calls, nextId, lastAlert,
  localStorage,                                    \* window.localStorage
  blobUrl, workerSrc, objectUrls, revoked,            \* the PDF worker
  workerCalls, mounted, workerLog

splitVars == <<splitPc, splitArg, splitRet>>
sendVars  == <<sendPc, sendItems, settings, batches, batchIdx, result, sendLog>>
importVars == <<importPc, files, fileIdx, locals, pageNum, importResult, trace>>
utilVars == <<utilPc, utilFn, utilArg, utilRet>>
appVars == <<items, totalStock, history, activeTab, isImporting, emailSettings,
             isEmailModalOpen, handleImportPDF, calls, nextId, lastAlert>>
storageVars == <<localStorage>>
workerVars == <<blobUrl, workerSrc, objectUrls, revoked, workerCalls, mounted, workerLog>>
vars      == <<splitVars, sendVars, importVars, utilVars, appVars, storageVars,
               workerVars>>

\* ------------------------------------------------------------- helpers
RECURSIVE SumSeq(_)
SumSeq(s) == IF s = <<>> THEN 0 ELSE Head(s) + SumSeq(Tail(s))

RECURSIVE Flatten(_)
Flatten(ss) == IF ss = <<>> THEN <<>> ELSE Head(ss) \o Flatten(Tail(ss))

\* Number of decimal digits of a natural number, as String(n) prints it.
RECURSIVE DigitCount(_)
DigitCount(n) == IF n < 10 THEN 1 ELSE 1 + DigitCount(n \div 10)

\* Length of `${x}` for a non-negative number x given in hundredths:
\* 1800 prints "18", 1050 prints "10.5", 1055 prints "10.55", 0 prints "0".
NumberStrLen(h) ==
  LET whole == h \div 100
      frac  == h % 100
  IN DigitCount(whole)
       + (IF frac = 0 THEN 0 ELSE IF frac % 10 = 0 THEN 2 ELSE 3)

\* ------------------------------------------------- emailService.ts: lines
\* formatItemForEmail: the line is kept as the tuple of the pieces the
\* template interpolates; the literal pieces are the same for every line.
formatItemForEmail(item, index) ==
  [index  |-> index,
   os     |-> item.os,
   clientDescription |-> item.clientDescription,
   colors |-> IF item.colors = 0 THEN 3 ELSE item.colors,   \* || 'N/A'
   width  |-> item.width,
   height |-> item.height]

\* Buffer.byteLength(line, 'utf8') of a formatted line:
\* `${index}. OS: ${os} | ${desc} | Cores: ${colors} | Dim: ${w}x${h}cm`
byteLength(line) ==
  DigitCount(line.index) + 6 + line.os + 3 + line.clientDescription
    + 10 + line.colors + 8 + NumberStrLen(line.width) + 1
    + NumberStrLen(line.height) + 2

\* The size the partitioner counts for an item (lines 35-36).
itemSize(item) == byteLength(formatItemForEmail(item, 1))

\* ------------------------------------------- splitIntoEmailBatches (29-67)
ShouldClose_NoEmptyGuard(currentSize, size, currentBatch) ==
  currentSize + size > MAX_EMAIL_SIZE_BYTES

ShouldClose_CheckBeforeAdd(currentSize, size, currentBatch) ==
  currentSize > MAX_EMAIL_SIZE_BYTES /\ Len(currentBatch) > 0

ShouldClose_Geq(currentSize, size, currentBatch) ==
  currentSize + size >= MAX_EMAIL_SIZE_BYTES /\ Len(currentBatch) > 0

\* line 38: the current batch is closed before the item is added
ShouldClose(currentSize, size, currentBatch) ==
  currentSize + size > MAX_EMAIL_SIZE_BYTES /\ Len(currentBatch) > 0

\* lines 39-43 and 53-57: the batch object pushed onto batches
NewBatch(bs, currentBatch) ==
  [items |-> currentBatch, batchNumber |-> Len(bs) + 1, totalBatches |-> 0]

PushItem_DropOnClose(currentBatch, closed, item) ==
  IF closed THEN <<>> ELSE Append(currentBatch, item)

\* lines 44 and 48: currentBatch after the item is pushed
PushItem(currentBatch, closed, item) ==
  Append(IF closed THEN <<>> ELSE currentBatch, item)

RECURSIVE SplitLoop(_, _, _, _, _)
\* lines 34-50: the for loop, from item i on
SplitLoop(its, i, bs, currentBatch, currentSize) ==
  IF i > Len(its) THEN [batches |-> bs, currentBatch |-> currentBatch]
  ELSE
    LET item   == its[i]
        size   == itemSize(item)
        closed == ShouldClose(currentSize, size, currentBatch)
        bs1    == IF closed THEN Append(bs, NewBatch(bs, currentBatch)) ELSE bs
        size1  == IF closed THEN 0 ELSE currentSize
    IN SplitLoop(its, i + 1, bs1, PushItem(currentBatch, closed, item),
                 size1 + size)

FillTotalBatches_Skip(bs) == bs

\* lines 61-64: back-fill totalBatches
FillTotalBatches(bs) ==
  [k \in 1..Len(bs) |-> [bs[k] EXCEPT !.totalBatches = Len(bs)]]

splitIntoEmailBatches(its) ==
  LET loop == SplitLoop(its, 1, <<>>, <<>>, 0)
      bs   == IF Len(loop.currentBatch) > 0                    \* line 52
              THEN Append(loop.batches, NewBatch(loop.batches, loop.currentBatch))
              ELSE loop.batches
  IN FillTotalBatches(bs)

\* ------------------------------------------------ formatEmailMessage (72-78)
\* The message is kept as its header fields and its item lines; the lines
\* are numbered from 1 within the batch (idx + 1).
formatEmailMessage(batch) ==
  [batchNumber  |-> batch.batchNumber,
   totalBatches |-> batch.totalBatches,
   count        |-> Len(batch.items),
   lines        |-> [j \in 1..Len(batch.items) |->
                       formatItemForEmail(batch.items[j], j)]]

\* ------------------------------------------------- validateEmail (utils 31-34)
Whitespace == {" ", "\t", "\n"}

RECURSIVE TrimLeft(_)
TrimLeft(s) ==
  IF s # <<>> /\ Head(s) \in Whitespace THEN TrimLeft(Tail(s)) ELSE s

RECURSIVE TrimRight(_)
TrimRight(s) ==
  IF s # <<>> /\ s[Len(s)] \in Whitespace
  THEN TrimRight(SubSeq(s, 1, Len(s) - 1)) ELSE s

trim(s) == TrimRight(TrimLeft(s))

\* [^\s@]
NotSpaceNorAt(c) == c \notin Whitespace /\ c # "@"

\* /^[^\s@]+@[^\s@]+\.[^\s@]+$/.test(email.trim())
validateEmail(email) ==
  LET t == trim(email)
  IN \E a \in 2..Len(t) :
       /\ t[a] = "@"
       /\ \A i \in 1..Len(t) : i # a => NotSpaceNorAt(t[i])
       /\ \E d \in (a + 2)..(Len(t) - 1) : t[d] = "."

\* --------------------------------------------- sendBatchNotification (83-163)
\* lines 109: !serviceId || !templateId || !publicKey
SettingsIncomplete(st) ==
  st.serviceId = "" \/ st.templateId = "" \/ st.publicKey = ""

\* line 147: the send of the batch resolved
OnResolved(r, batch) ==
  [r EXCEPT !.sent = r.sent + Len(batch.items)]

OnRejected_KeepSuccess(r, batch, errorMessage) ==
  [r EXCEPT !.errors = Append(r.errors, <<"Batch", batch.batchNumber, errorMessage>>),
            !.failed = r.failed + Len(batch.items)]

\* lines 153-158: the send of the batch rejected
OnRejected(r, batch, errorMessage) ==
  [r EXCEPT !.errors = Append(r.errors, <<"Batch", batch.batchNumber, errorMessage>>),
            !.failed = r.failed + Len(batch.items),
            !.success = FALSE]

LoopAdvance_StopOnReject(idx, bs, rejected) ==
  IF rejected THEN 0 ELSE IF idx < Len(bs) THEN idx + 1 ELSE 0

\* line 130: the next batch of the for-of loop after batch idx settled,
\* or 0 when the loop is over; the catch block does not leave the loop.
LoopAdvance(idx, bs, rejected) ==
  IF idx < Len(bs) THEN idx + 1 ELSE 0

\* lines 132-145: the call of emailjs.send for a batch, as it is logged
SendEvent(st, batch) ==
  [ev |-> "send", batchNumber |-> batch.batchNumber,
   to_email |-> st.targetEmail, message |-> formatEmailMessage(batch)]

SettleEvent(kind, batch) == [ev |-> kind, batchNumber |-> batch.batchNumber]

\* ------------------------------------------------------- strings as tuples
Digits == <<"0", "1", "2", "3", "4", "5", "6", "7", "8", "9">>

UpperCase == <<"A", "B", "C", "D", "E", "F", "G", "H", "I", "J", "K", "L", "M",
               "N", "O", "P", "Q", "R", "S", "T", "U", "V", "W", "X", "Y", "Z">>

LowerCase == <<"a", "b", "c", "d", "e", "f", "g", "h", "i", "j", "k", "l", "m",
               "n", "o", "p", "q", "r", "s", "t", "u", "v", "w", "x", "y", "z">>

IsDigit(c) == \E i \in 1..10 : Digits[i] = c

DigitValue(c) == (CHOOSE i \in 1..10 : Digits[i] = c) - 1

\* String.prototype.toLowerCase, one character
LowerChar(c) ==
  IF \E i \in 1..26 : UpperCase[i] = c
  THEN LowerCase[CHOOSE i \in 1..26 : UpperCase[i] = c]
  ELSE c

toLowerCase(str) == [i \in 1..Len(str) |-> LowerChar(str[i])]

endsWith(str, suffix) ==
  /\ Len(str) >= Len(suffix)
  /\ SubSeq(str, Len(str) - Len(suffix) + 1, Len(str)) = suffix

\* The character at position p, or "" past either end.
CharAt(str, p) == IF p >= 1 /\ p <= Len(str) THEN str[p] ELSE ""

\* ----------------------------------------------- validateDimensions (39-53)
\* Widths and heights are numbers in hundredths of a centimetre, so the
\* typeof and isNaN branches (lines 40-45) are not taken.
MAX_DIMENSION == 50000

validateDimensions_NoUpperBound(width, height) ==
  IF width <= 0 \/ height <= 0
  THEN [valid |-> FALSE, error |-> "Dimensoes devem ser maiores que zero"]
  ELSE [valid |-> TRUE, error |-> ""]

validateDimensions(width, height) ==
  IF width <= 0 \/ height <= 0
  THEN [valid |-> FALSE, error |-> "Dimensoes devem ser maiores que zero"]
  ELSE IF width > MAX_DIMENSION \/ height > MAX_DIMENSION
  THEN [valid |-> FALSE, error |-> "Dimensoes muito grandes (maximo 500cm)"]
  ELSE [valid |-> TRUE, error |-> ""]

\* ---------------------------------------------- extractDimensions (127-149)
null == [null |-> TRUE]

\* The position after the longest run of digits from p on (\d+ is greedy
\* and what follows it in the pattern is never a digit).
RECURSIVE DigitsEnd(_, _)
DigitsEnd(str, p) ==
  IF IsDigit(CharAt(str, p)) THEN DigitsEnd(str, p + 1) ELSE p

\* The position after \s* from p on.
RECURSIVE SpaceEnd(_, _)
SpaceEnd(str, p) ==
  IF CharAt(str, p) \in Whitespace THEN SpaceEnd(str, p + 1) ELSE p

\* The position after \d+(?:\.\d+)? from p on, or p when no digit is there.
NumberEnd(str, p) ==
  LET e == DigitsEnd(str, p)
  IN IF e > p /\ CharAt(str, e) = "." /\ DigitsEnd(str, e + 1) > e + 1
     THEN DigitsEnd(str, e + 1)
     ELSE e

\* /(\d+(?:\.\d+)?)\s*[xX]\s*(\d+(?:\.\d+)?)\s*mm/i matched from p on: the
\* spans of the two groups, or null.
SizeMatchAt(str, p) ==
  LET e1 == NumberEnd(str, p)
      x  == SpaceEnd(str, e1)
      b2 == SpaceEnd(str, x + 1)
      e2 == NumberEnd(str, b2)
      m  == SpaceEnd(str, e2)
  IN IF /\ e1 > p
        /\ LowerChar(CharAt(str, x)) = "x"
        /\ e2 > b2
        /\ LowerChar(CharAt(str, m)) = "m"
        /\ LowerChar(CharAt(str, m + 1)) = "m"
     THEN [g1 |-> SubSeq(str, p, e1 - 1), g2 |-> SubSeq(str, b2, e2 - 1)]
     ELSE null

\* String.prototype.match: the leftmost position that matches.
RECURSIVE SizeMatchFrom(_, _)
SizeMatchFrom(str, p) ==
  IF p > Len(str) THEN null
  ELSE IF SizeMatchAt(str, p) # null THEN SizeMatchAt(str, p)
  ELSE SizeMatchFrom(str, p + 1)

RECURSIVE DecimalValue(_)
\* The value of a run of digits.
DecimalValue(ds) ==
  IF ds = <<>> THEN 0
  ELSE DecimalValue(SubSeq(ds, 1, Len(ds) - 1)) * 10 + DigitValue(ds[Len(ds)])

\* parseFloat((parseFloat(g) / 10).toFixed(2)) in hundredths: a number of
\* millimetres "I.F" is I*10 + F1 hundredths of a centimetre, rounded on the
\* second digit of the fraction.
MmToCm(g) ==
  LET e    == DigitsEnd(g, 1)
      frac == SubSeq(g, e + 1, Len(g))
      f1   == IF Len(frac) >= 1 THEN DigitValue(frac[1]) ELSE 0
      f2   == IF Len(frac) >= 2 THEN DigitValue(frac[2]) ELSE 0
  IN DecimalValue(SubSeq(g, 1, e - 1)) * 10 + f1 + (IF f2 >= 5 THEN 1 ELSE 0)

extractDimensions_NoValidation(filename) ==
  LET sizeMatch == SizeMatchFrom(filename, 1)
  IN IF filename = <<>> \/ sizeMatch = null THEN null
     ELSE [width |-> MmToCm(sizeMatch.g1), height |-> MmToCm(sizeMatch.g2)]

extractDimensions(filename) ==
  LET sizeMatch == SizeMatchFrom(filename, 1)
  IN IF filename = <<>> THEN null
     ELSE IF sizeMatch = null THEN null
     ELSE LET widthCm  == MmToCm(sizeMatch.g1)
              heightCm == MmToCm(sizeMatch.g2)
          IN IF ~validateDimensions(widthCm, heightCm).valid THEN null
             ELSE [width |-> widthCm, height |-> heightCm]

\* ----------------------------------------- calculatePdfDimensions (154-165)
\* points * 2.54 / 72 in hundredths of a centimetre, rounded to the nearest
PointsToCm(points) == (points * 254 * 2 + 72) \div (72 * 2)

calculatePdfDimensions(pageWidth, pageHeight, marginCm) ==
  [width  |-> PointsToCm(pageWidth) + marginCm * 2 * 100,
   height |-> PointsToCm(pageHeight) + marginCm * 2 * 100]

\* ------------------------------------------------------ extractOS (118-122)
\* \w of the regular expressions
IsWordChar(c) ==
  \/ IsDigit(c)
  \/ c = "_"
  \/ \E i \in 1..26 : UpperCase[i] = c \/ LowerCase[i] = c

\* /\b(\d{4,})\b/ from p on: a whole run of at least four digits with no
\* word character on either side.
OsMatchAt(str, p) ==
  /\ IsDigit(CharAt(str, p))
  /\ ~IsWordChar(CharAt(str, p - 1))
  /\ DigitsEnd(str, p) - p >= 4
  /\ ~IsWordChar(CharAt(str, DigitsEnd(str, p)))

extractOS(filename) ==
  IF \E p \in 1..Len(filename) : OsMatchAt(filename, p)
  THEN LET p == CHOOSE q \in 1..Len(filename) :
                  /\ OsMatchAt(filename, q)
                  /\ \A r \in 1..(q - 1) : ~OsMatchAt(filename, r)
       IN SubSeq(filename, p, DigitsEnd(filename, p) - 1)
  ELSE <<>>

\* --------------------------------------------------- detectColors (80-111)
\* /\bword\b/.test(str), for a word that begins and ends with a word character
HasWord(str, word) ==
  \E p \in 1..Len(str) :
    /\ p + Len(word) - 1 <= Len(str)
    /\ SubSeq(str, p, p + Len(word) - 1) = word
    /\ ~IsWordChar(CharAt(str, p - 1))
    /\ ~IsWordChar(CharAt(str, p + Len(word)))

\* /\b(\d{3,5})c\b/
HasPantone(str) ==
  \E p \in 1..Len(str) :
    LET e == DigitsEnd(str, p)
    IN /\ ~IsWordChar(CharAt(str, p - 1))
       /\ e - p >= 3 /\ e - p <= 5
       /\ CharAt(str, e) = "c"
       /\ ~IsWordChar(CharAt(str, e + 1))

\* /\bgray[1-4]\b/
HasGray(str) ==
  \E d \in {"1", "2", "3", "4"} : HasWord(str, <<"g", "r", "a", "y", d>>)

ColorPatterns(str) ==
  << [name |-> "CMYK", games |-> 4, found |-> HasWord(str, <<"c", "m", "y", "k">>)],
     [name |-> "PANTONE", games |-> 1, found |-> HasPantone(str)],
     [name |-> "GRAY", games |-> 1, found |-> HasGray(str)],
     [name |-> "BLACK", games |-> 1,
      found |-> \/ HasWord(str, <<"b", "l", "a", "c", "k">>)
                \/ HasWord(str, <<"p", "r", "e", "t", "o">>)
                \/ HasWord(str, <<"p", "b">>)
                \/ HasWord(str, <<"p", "&", "b">>)],
     [name |-> "WHITE", games |-> 1,
      found |-> \/ HasWord(str, <<"w", "h", "i", "t", "e">>)
                \/ HasWord(str, <<"b", "r", "a", "n", "c", "o">>)],
     [name |-> "RED", games |-> 1, found |-> HasWord(str, <<"r", "e", "d">>)],
     [name |-> "BLUE", games |-> 1, found |-> HasWord(str, <<"b", "l", "u", "e">>)] >>

detectColors(filename) ==
  IF filename = <<>> THEN [colors |-> <<>>, gameCount |-> 1]
  ELSE
    LET hits  == SelectSeq(ColorPatterns(toLowerCase(filename)), LAMBDA q : q.found)
        total == SumSeq([i \in 1..Len(hits) |-> hits[i].games])
    IN [colors    |-> [i \in 1..Len(hits) |-> hits[i].name],
        gameCount |-> IF total < 1 THEN 1 ELSE total]

\* ----------------------------------------------------- validateGames (58-61)
\* on a number that is already an integer (validateGamesAny is the function
\* on a value of any type)
validateGames(games) == IF games < 1 THEN 1 ELSE games

\* ------------------------------------------------ migrateOrderItem (290-308)
\* on a well-typed item (migrateOrderItemAny is the function on a value of
\* any type): each `x || default` replaces a falsy x (an empty
\* string, the number 0).  pricePerCm2 counts ten-thousandths.
DEFAULT_RATE == 798

migrateOrderItem(item) ==
  [id                |-> IF item.id = 0 THEN 1 ELSE item.id,
   os                |-> item.os,
   clientDescription |-> item.clientDescription,
   colors            |-> item.colors,
   jobType           |-> IF item.jobType = "" THEN "Novo" ELSE item.jobType,
   date              |-> IF item.date = "" THEN "today" ELSE item.date,
   width             |-> item.width,
   height            |-> item.height,
   games             |-> validateGames(item.games),
   pricePerCm2       |-> IF item.pricePerCm2 = 0 THEN DEFAULT_RATE ELSE item.pricePerCm2,
   observations      |-> item.observations]

\* ----------------------------------------------- importPdfsToItems (370-491)
\* lines 374-381
NewImportResult ==
  [success |-> TRUE, itemsCreated |-> 0, filesProcessed |-> 0,
   filesFailed |-> 0, errors |-> <<>>, items |-> <<>>]

\* line 395: file.name.toLowerCase().endsWith('.pdf')
IsPdfName(name) == endsWith(toLowerCase(name), <<".", "p", "d", "f">>)

\* line 403: file.name.replace(/\.pdf$/i, '')
fileNameBase(name) ==
  IF IsPdfName(name) THEN SubSeq(name, 1, Len(name) - 4) ELSE name

\* lines 423-435: the dimensions of a page and where they come from
FinalDimensions_GeometryFirst(dimsFromFilename, viewport) ==
  LET dimResult == calculatePdfDimensions(viewport.width, viewport.height, 1)
  IN [width |-> dimResult.width, height |-> dimResult.height,
      obs |-> IF dimsFromFilename # null
              THEN "Dimensoes extraidas do nome do arquivo"
              ELSE "Importado de PDF (+1cm margem/lado)"]

FinalDimensions(dimsFromFilename, viewport) ==
  IF dimsFromFilename # null
  THEN [width |-> dimsFromFilename.width, height |-> dimsFromFilename.height,
        obs |-> "Dimensoes extraidas do nome do arquivo"]
  ELSE LET dimResult == calculatePdfDimensions(viewport.width, viewport.height, 1)
       IN [width |-> dimResult.width, height |-> dimResult.height,
           obs |-> "Importado de PDF (+1cm margem/lado)"]

\* lines 401-406: what is derived once per file and used for all its pages
FileLocals(file) ==
  [numPages         |-> file.numPages,
   fileNameBase     |-> fileNameBase(file.name),
   fileOS           |-> extractOS(file.name),
   dimsFromFilename |-> extractDimensions(file.name),
   colorDetection   |-> detectColors(file.name)]

NoLocals ==
  [numPages |-> 0, fileNameBase |-> <<>>, fileOS |-> <<>>,
   dimsFromFilename |-> null, colorDetection |-> [colors |-> <<>>, gameCount |-> 1]]

\* lines 449-463: the candidate item of a page
NewItem(loc, page, final, id) ==
  [id                |-> id,
   os                |-> loc.fileOS,
   clientDescription |-> [base |-> loc.fileNameBase,
                          page |-> IF loc.numPages > 1 THEN page ELSE 0],
   colors            |-> loc.colorDetection.colors,
   jobType           |-> "Novo",
   date              |-> "today",
   width             |-> final.width,
   height            |-> final.height,
   games             |-> loc.colorDetection.gameCount,
   pricePerCm2       |-> DEFAULT_RATE,
   observations      |-> final.obs]

ImportError(name, page, msg) == [file |-> name, page |-> page, error |-> msg]

\* lines 383-387: no file selected
OnNoFiles(r) ==
  [r EXCEPT !.success = FALSE,
            !.errors = Append(@, ImportError(<<>>, 0, "Nenhum arquivo selecionado"))]

OnFileError_NoCount(r, name, msg) ==
  [r EXCEPT !.errors = Append(@, ImportError(name, 0, msg)),
            !.success = FALSE]

OnFileError_KeepSuccess(r, name, msg) ==
  [r EXCEPT !.errors = Append(@, ImportError(name, 0, msg)),
            !.filesFailed = @ + 1]

\* lines 475-481: the catch of a file
OnFileError(r, name, msg) ==
  [r EXCEPT !.errors = Append(@, ImportError(name, 0, msg)),
            !.filesFailed = @ + 1,
            !.success = FALSE]

\* lines 439-447: the dimensions of the page failed validation
OnPageInvalid(r, name, page, msg) ==
  [r EXCEPT !.errors = Append(@, ImportError(name, page, msg))]

\* lines 467-471: the catch of a page
OnPageError(r, name, page, msg) ==
  [r EXCEPT !.errors = Append(@, ImportError(name, page, msg))]

\* lines 465-466
OnItem(r, item) ==
  [r EXCEPT !.items = Append(@, migrateOrderItem(item)),
            !.itemsCreated = @ + 1]

NextPage_BreakOnError(page, pages, created) ==
  IF created THEN page + 1 ELSE pages + 1

\* lines 415, 446 and 471: pageNum++ follows the continue of a page that
\* failed validation and the catch of a page, as it follows a created item
NextPage(page, pages, created) == page + 1

\* line 474
OnFileDone(r) == [r EXCEPT !.filesProcessed = @ + 1]

\* ------------------------------------------------------ JavaScript values
\* A value of type `any`: undefined, null, a boolean, a number, a string
\* (a tuple of characters), an object (a function from its property names
\* to values) or an array.  A number counts ten-thousandths; NaN is apart.
Unit == 100 * 100

undefined == [t |-> "undefined"]

NaN == [t |-> "NaN"]

Bool(b) == [t |-> "boolean", b |-> b]

Num(n) == [t |-> "number", n |-> n]

Str(s) == [t |-> "string", s |-> s]

Obj(props) == [t |-> "object", props |-> props]

Arr(elems) == [t |-> "array", elems |-> elems]

TagOf(x) == IF x = null THEN "null" ELSE x.t

typeof_StringIsObject(x) ==
  CASE TagOf(x) \in {"null", "object", "array", "string"} -> "object"
    [] TagOf(x) \in {"number", "NaN"} -> "number"
    [] OTHER -> TagOf(x)

\* typeof x
typeof(x) ==
  CASE TagOf(x) \in {"null", "object", "array"} -> "object"
    [] TagOf(x) \in {"number", "NaN"} -> "number"
    [] OTHER -> TagOf(x)

isNaN(x) == TagOf(x) = "NaN"

\* The truth value of x in `!x` and `x || y`.
ToBoolean(x) ==
  CASE TagOf(x) \in {"undefined", "null", "NaN"} -> FALSE
    [] TagOf(x) = "boolean" -> x.b
    [] TagOf(x) = "number" -> x.n # 0
    [] TagOf(x) = "string" -> x.s # <<>>
    [] OTHER -> TRUE

\* x || y
Or(x, y) == IF ToBoolean(x) THEN x ELSE y

\* item[key] on an object or an array: undefined when the property is absent
Get(item, key) ==
  IF TagOf(item) = "object" /\ key \in DOMAIN item.props THEN item.props[key]
  ELSE undefined

\* The decimal digits of a natural number.
RECURSIVE NatToString(_)
NatToString(n) ==
  IF n < 10 THEN <<Digits[n + 1]>>
  ELSE Append(NatToString(n \div 10), Digits[(n % 10) + 1])

\* The digits of a fraction of f ten-thousandths, without trailing zeros.
RECURSIVE FractionDigits(_, _)
FractionDigits(f, width) ==
  IF f = 0 THEN <<>>
  ELSE <<Digits[(f \div width) + 1]>> \o FractionDigits((f % width) * 10, width)

\* Number.prototype.toString of a number of v ten-thousandths
NumberToString(v) ==
  LET a == IF v < 0 THEN 0 - v ELSE v
      f == FractionDigits(a % Unit, Unit \div 10)
  IN (IF v < 0 THEN <<"-">> ELSE <<>>) \o NatToString(a \div Unit)
       \o (IF f = <<>> THEN <<>> ELSE <<".">> \o f)

RECURSIVE String(_), Join(_)
\* String(x), the conversion that parseInt and parseFloat apply
String(x) ==
  CASE TagOf(x) = "undefined" -> <<"u", "n", "d", "e", "f", "i", "n", "e", "d">>
    [] TagOf(x) = "null" -> <<"n", "u", "l", "l">>
    [] TagOf(x) = "NaN" -> <<"N", "a", "N">>
    [] TagOf(x) = "boolean" -> IF x.b THEN <<"t", "r", "u", "e">>
                                       ELSE <<"f", "a", "l", "s", "e">>
    [] TagOf(x) = "number" -> NumberToString(x.n)
    [] TagOf(x) = "string" -> x.s
    [] TagOf(x) = "array" -> Join(x.elems)
    [] OTHER -> <<"[", "o", "b", "j", "e", "c", "t", " ", "O", "b", "j", "e", "c", "t", "]">>

\* Array.prototype.join(','): null and undefined elements give ''
Join(elems) ==
  IF elems = <<>> THEN <<>>
  ELSE LET first == IF TagOf(Head(elems)) \in {"undefined", "null"} THEN <<>>
                    ELSE String(Head(elems))
       IN IF Len(elems) = 1 THEN first
          ELSE first \o <<",">> \o Join(Tail(elems))

\* ---------------------------------------------- parseInt and parseFloat
\* The sign and the first position of the digits of a trimmed string.
SignOf(s) == IF CharAt(s, 1) = "-" THEN 0 - 1 ELSE 1

AfterSign(s) == IF CharAt(s, 1) \in {"+", "-"} THEN 2 ELSE 1

\* parseInt(x, 10): String(x) without its leading white space, an optional
\* sign and the longest run of digits; NaN when there is no digit
parseInt(x) ==
  LET s == TrimLeft(String(x))
      p == AfterSign(s)
      e == DigitsEnd(s, p)
  IN IF e = p THEN NaN
     ELSE Num(SignOf(s) * DecimalValue(SubSeq(s, p, e - 1)) * Unit)

\* The ten-thousandths of the digits after a decimal point (digits past the
\* fourth are not counted).
FractionValue(ds) ==
  DecimalValue([i \in 1..4 |-> IF i <= Len(ds) THEN ds[i] ELSE "0"])

\* parseFloat(x): String(x) without its leading white space, an optional
\* sign, digits and an optional fraction; NaN when there is no digit.  The
\* exponent part and the literal Infinity are not read.
parseFloat(x) ==
  LET s  == TrimLeft(String(x))
      p  == AfterSign(s)
      e1 == DigitsEnd(s, p)
      e2 == IF CharAt(s, e1) = "." THEN DigitsEnd(s, e1 + 1) ELSE e1
  IN IF e1 = p /\ e2 <= e1 + 1 THEN NaN
     ELSE Num(SignOf(s) * (DecimalValue(SubSeq(s, p, e1 - 1)) * Unit
                           + FractionValue(SubSeq(s, e1 + 1, e2 - 1))))

\* ------------------------------------- validateGames (58-61), games: any
validateGamesAny_NoFloor(games) ==
  LET parsed == parseInt(games)
  IN IF isNaN(parsed) THEN Num(Unit) ELSE parsed

validateGamesAny(games) ==
  LET parsed == parseInt(games)
  IN IF isNaN(parsed) THEN Num(Unit)
     ELSE IF parsed.n < Unit THEN Num(Unit) ELSE parsed

\* --------------------------------- migrateOrderItem (290-308), item: any
Novo == <<"N", "o", "v", "o">>

\* new Date().toISOString().split('T')[0] on the day of the call
Today == <<"2", "0", "2", "6", "-", "0", "1", "-", "1", "5">>

Thrown(message) == [threw |-> TRUE, message |-> message]

\* `random` is the value of Math.random().toString(36).substr(2, 9).
migrateOrderItemAny(item, random) ==
  IF ~ToBoolean(item) \/ typeof(item) # "object"
  THEN Thrown("Invalid order item")
  ELSE Obj(
       [id                |-> Or(Get(item, "id"), Str(random)),
        os                |-> Str(String(Or(Get(item, "os"), Str(<<>>)))),
        clientDescription |-> Str(String(Or(Get(item, "clientDescription"), Str(<<>>)))),
        colors            |-> Str(String(Or(Get(item, "colors"), Str(<<>>)))),
        jobType           |-> Or(Get(item, "jobType"), Str(Novo)),
        date              |-> Or(Get(item, "date"), Str(Today)),
        width             |-> Or(parseFloat(Get(item, "width")), Num(0)),
        height            |-> Or(parseFloat(Get(item, "height")), Num(0)),
        games             |-> validateGamesAny(Get(item, "games")),
        pricePerCm2       |-> Or(parseFloat(Get(item, "pricePerCm2")), Num(DEFAULT_RATE)),
        observations      |-> Str(String(Or(Get(item, "observations"), Str(<<>>))))])

\* items.map(migrate with try/catch -> null).filter(item => item !== null):
\* randoms[i] is the draw of Math.random for the i-th element.
RECURSIVE MigrateItems(_, _)
MigrateItems_StopAtMalformed(elems, randoms) ==
  IF elems = <<>> THEN <<>>
  ELSE LET migrated == migrateOrderItemAny(Head(elems), Head(randoms))
       IN IF migrated = Thrown("Invalid order item") THEN <<>>
          ELSE <<migrated>> \o MigrateItems(Tail(elems), Tail(randoms))

MigrateItems(elems, randoms) ==
  IF elems = <<>> THEN <<>>
  ELSE LET migrated == migrateOrderItemAny(Head(elems), Head(randoms))
       IN (IF migrated = Thrown("Invalid order item") THEN <<>> ELSE <<migrated>>)
            \o MigrateItems(Tail(elems), Tail(randoms))

\* ------------------------------ migrateHistoryBatch (313-329), batch: any
\* batch.items.map is not a function when batch.items is a truthy value
\* that is not an array.
migrateHistoryBatchAny(batch, randoms) ==
  IF ~ToBoolean(batch) \/ typeof(batch) # "object"
  THEN Thrown("Invalid history batch")
  ELSE LET stored == Or(Get(batch, "items"), Arr(<<>>))
           props  == IF TagOf(batch) = "object" THEN batch.props ELSE <<>>
       IN IF TagOf(stored) # "array"
          THEN Thrown("batch.items.map is not a function")
          ELSE Obj([key \in DOMAIN props \cup {"items"} |->
                      IF key = "items" THEN Arr(MigrateItems(stored.elems, randoms))
                      ELSE props[key]])

\* ------------------------------------- App.tsx 44-84: the initial items
INITIAL_DATA ==
  <<
     Obj([id |-> Str(<<"1">>), os |-> Str(<<"4", "7", "8", "7">>),
          clientDescription |-> Str(<<"1", "6", "2", "9", "3", " ", "-", " ", "A", "l", "i", "b", "e", "m">>),
          colors |-> Str(<<"C", "M", "Y", "K">>),
          jobType |-> Str(Novo),
          date |-> Str(<<"2", "0", "2", "3", "-", "1", "1", "-", "2", "7">>),
          width |-> Num(18 * Unit), height |-> Num(24 * Unit),
          games |-> Num(4 * Unit), pricePerCm2 |-> Num(DEFAULT_RATE),
          observations |-> Str(<<>>)]),
     Obj([id |-> Str(<<"2">>), os |-> Str(<<"4", "7", "7", "7">>),
          clientDescription |-> Str(<<"1", "6", "2", "9", "3", " ", "-", " ", "S", "I", "F">>),
          colors |-> Str(<<"P", "a", "n", "t", "o", "n", "e", " ", "4", "8", "5", "C">>),
          jobType |-> Str(Novo),
          date |-> Str(<<"2", "0", "2", "3", "-", "1", "1", "-", "2", "7">>),
          width |-> Num(18 * Unit), height |-> Num(24 * Unit),
          games |-> Num(1 * Unit), pricePerCm2 |-> Num(DEFAULT_RATE),
          observations |-> Str(<<>>)]),
     Obj([id |-> Str(<<"3">>), os |-> Str(<<"4", "5", "7", "8">>),
          clientDescription |-> Str(<<"6", "9", "8", "5", "3", " ", "-", " ", "P", "i", "n", "h", "e", "i", "r", "e", "n", "s", "e">>),
          colors |-> Str(<<"B", "l", "a", "c", "k">>),
          jobType |-> Str(Novo),
          date |-> Str(<<"2", "0", "2", "3", "-", "1", "1", "-", "2", "5">>),
          width |-> Num(18 * Unit), height |-> Num(24 * Unit),
          games |-> Num(1 * Unit), pricePerCm2 |-> Num(DEFAULT_RATE),
          observations |-> Str(<<>>)]) >>

\* App.tsx 121-136: the initial working set, from what storage holds
LoadItems(saved, randoms) ==
  LET stored == IF TagOf(saved) \in {"undefined", "null"} THEN undefined
                ELSE Get(saved, "items")
  IN IF ToBoolean(stored) /\ TagOf(stored) = "array"
     THEN MigrateItems(stored.elems, randoms)
     ELSE INITIAL_DATA

\* ------------------------------------------------------------ JSON.parse
\* The text is read as the grammar of JSON reads it: white space, the
\* literals, numbers -?(0|[1-9]\d*)(\.\d+)?, strings, arrays and objects.
\* An exponent part and an escape sequence in a string are not read (no
\* stored text of the model has one), and the digits of a fraction past the
\* fourth are not counted.
Parsed(v, p) == [ok |-> TRUE, v |-> v, p |-> p]

\* The element of a set of one element; { e(x) : x \in {v} } names a value
\* that e uses more than once.
The(S) == CHOOSE x \in S : TRUE

SyntaxError == [ok |-> FALSE]

\* The text has the given word at position p.
HasLiteral(str, p, word) ==
  p + Len(word) - 1 <= Len(str) /\ SubSeq(str, p, p + Len(word) - 1) = word

\* The position of the closing quote of a string whose characters start at
\* p, or 0 when the string is not closed.
RECURSIVE StringEnd(_, _)
StringEnd(str, p) ==
  IF p > Len(str) THEN 0
  ELSE IF str[p] = "\"" THEN p
  ELSE StringEnd(str, p + 1)

\* The property name that a tuple of characters spells.
RECURSIVE KeyOf(_)
KeyOf(chars) == IF chars = <<>> THEN "" ELSE Head(chars) \o KeyOf(Tail(chars))

\* A number from position p on.
ParseNumber(str, p) ==
  LET b  == IF CharAt(str, p) = "-" THEN p + 1 ELSE p
      e1 == IF CharAt(str, b) = "0" THEN b + 1 ELSE DigitsEnd(str, b)
      e2 == IF CharAt(str, e1) = "." THEN DigitsEnd(str, e1 + 1) ELSE e1
  IN IF e1 = b \/ (CharAt(str, e1) = "." /\ e2 = e1 + 1) THEN SyntaxError
     ELSE Parsed(Num((IF b > p THEN 0 - 1 ELSE 1)
                       * (DecimalValue(SubSeq(str, b, e1 - 1)) * Unit
                          + FractionValue(SubSeq(str, e1 + 1, e2 - 1)))), e2)

RECURSIVE ParseValue(_, _), ParseElements(_, _, _), ParseMembers(_, _, _)
\* A value from position p0 on: the value and the position after it.
ParseValue(str, p0) ==
  LET p == SpaceEnd(str, p0)
      c == CharAt(str, p)
  IN CASE HasLiteral(str, p, <<"n", "u", "l", "l">>) -> Parsed(null, p + 4)
       [] HasLiteral(str, p, <<"t", "r", "u", "e">>) -> Parsed(Bool(TRUE), p + 4)
       [] HasLiteral(str, p, <<"f", "a", "l", "s", "e">>) -> Parsed(Bool(FALSE), p + 5)
       [] c = "\"" ->
            LET e == StringEnd(str, p + 1)
            IN IF e = 0 THEN SyntaxError
               ELSE Parsed(Str(SubSeq(str, p + 1, e - 1)), e + 1)
       [] c = "[" ->
            LET q == SpaceEnd(str, p + 1)
            IN IF CharAt(str, q) = "]" THEN Parsed(Arr(<<>>), q + 1)
               ELSE ParseElements(str, q, <<>>)
       [] c = "{" ->
            LET q == SpaceEnd(str, p + 1)
            IN IF CharAt(str, q) = "}" THEN Parsed(Obj(<<>>), q + 1)
               ELSE ParseMembers(str, q, <<>>)
       [] c = "-" \/ IsDigit(c) -> ParseNumber(str, p)
       [] OTHER -> SyntaxError

\* The elements of an array from position p on, after the elements of acc.
ParseElements(str, p, acc) ==
  The({ IF ~r.ok THEN SyntaxError
        ELSE The({ IF CharAt(str, q) = ","
                   THEN ParseElements(str, q + 1, Append(acc, r.v))
                   ELSE IF CharAt(str, q) = "]"
                   THEN Parsed(Arr(Append(acc, r.v)), q + 1)
                   ELSE SyntaxError : q \in {SpaceEnd(str, r.p)} })
        : r \in {ParseValue(str, p)} })

\* The members of an object from position p on, after the members of props;
\* a name that comes twice keeps its last value.
ParseMembers(str, p, props) ==
  The({ The({ The({
    IF CharAt(str, k) # "\"" \/ e = 0 \/ CharAt(str, colon) # ":" THEN SyntaxError
    ELSE The({
      IF ~r.ok THEN SyntaxError
      ELSE The({ The({
        IF CharAt(str, q) = "," THEN ParseMembers(str, q + 1, more)
        ELSE IF CharAt(str, q) = "}" THEN Parsed(Obj(more), q + 1)
        ELSE SyntaxError
        : more \in {[n \in DOMAIN props \cup {key} |->
                       IF n = key THEN r.v ELSE props[n]]} })
        : q \in {SpaceEnd(str, r.p)}, key \in {KeyOf(SubSeq(str, k + 1, e - 1))} })
      : r \in {ParseValue(str, colon + 1)} })
    : colon \in {SpaceEnd(str, e + 1)} })
    : e \in {StringEnd(str, k + 1)} })
    : k \in {SpaceEnd(str, p)} })

\* JSON.parse(text): the value, or the SyntaxError it throws
JSONparse(text) ==
  The({ IF r.ok /\ SpaceEnd(text, r.p) > Len(text) THEN r.v
        ELSE Thrown("SyntaxError") : r \in {ParseValue(text, 1)} })

\* --------------------------------------------- loadFromStorage (241-263)
\* window.localStorage is a function from the keys it holds to their texts.
\* localStorage.getItem(key)
getItem(storage, key) ==
  IF key \in DOMAIN storage THEN Str(storage[key]) ELSE null

\* localStorage.removeItem(key)
removeItem(storage, key) == [k \in DOMAIN storage \ {key} |-> storage[k]]

\* The value returned and the storage left behind.  When the browser denies
\* the access to the storage, getItem throws and so does removeItem: both
\* are caught (lines 251-261).
loadFromStorage(storage, denied, key, defaultValue) ==
  The({ IF denied THEN [ret |-> defaultValue, storage |-> storage]
        ELSE IF ~ToBoolean(saved) THEN [ret |-> defaultValue, storage |-> storage]
        ELSE The({ IF "threw" \in DOMAIN parsed
                   THEN [ret |-> defaultValue, storage |-> removeItem(storage, key)]
                   ELSE [ret |-> Or(parsed, defaultValue), storage |-> storage]
                   : parsed \in {JSONparse(saved.s)} })
        : saved \in {getItem(storage, key)} })

\* -------------------------------------------------------- JSON.stringify
\* The property names of the objects that the program stores, in the order
\* in which its object literals give them (types.ts 5-31, App.tsx 241-245
\* and 309-316): JSON.stringify writes the properties in that order.
PropertyOrder ==
  <<"id", "timestamp", "os", "clientDescription", "colors", "jobType",
    "date", "width", "height", "games", "pricePerCm2", "observations",
    "items", "totalStock", "stockSnapshot", "fixedCost", "month",
    "year">>

\* The characters of the property names.
PropertyText ==
  [id |-> <<"i", "d">>,
   timestamp |-> <<"t", "i", "m", "e", "s", "t", "a", "m", "p">>,
   os |-> <<"o", "s">>,
   clientDescription |-> <<"c", "l", "i", "e", "n", "t", "D", "e", "s", "c", "r", "i", "p", "t", "i", "o", "n">>,
   colors |-> <<"c", "o", "l", "o", "r", "s">>,
   jobType |-> <<"j", "o", "b", "T", "y", "p", "e">>,
   date |-> <<"d", "a", "t", "e">>,
   width |-> <<"w", "i", "d", "t", "h">>,
   height |-> <<"h", "e", "i", "g", "h", "t">>,
   games |-> <<"g", "a", "m", "e", "s">>,
   pricePerCm2 |-> <<"p", "r", "i", "c", "e", "P", "e", "r", "C", "m", "2">>,
   observations |-> <<"o", "b", "s", "e", "r", "v", "a", "t", "i", "o", "n", "s">>,
   items |-> <<"i", "t", "e", "m", "s">>,
   totalStock |-> <<"t", "o", "t", "a", "l", "S", "t", "o", "c", "k">>,
   stockSnapshot |-> <<"s", "t", "o", "c", "k", "S", "n", "a", "p", "s", "h", "o", "t">>,
   fixedCost |-> <<"f", "i", "x", "e", "d", "C", "o", "s", "t">>,
   month |-> <<"m", "o", "n", "t", "h">>,
   year |-> <<"y", "e", "a", "r">>]

RECURSIVE JSONstringify(_), StringifyElements(_), StringifyMembers(_, _)
\* JSON.stringify(x) of a value that is not undefined.  NaN is written as
\* null; no string of the model needs an escape sequence.
JSONstringify(x) ==
  The({ CASE TagOf(v) \in {"null", "NaN", "undefined"} -> <<"n", "u", "l", "l">>
          [] TagOf(v) = "boolean" -> String(v)
          [] TagOf(v) = "number" -> NumberToString(v.n)
          [] TagOf(v) = "string" -> <<"\"">> \o v.s \o <<"\"">>
          [] TagOf(v) = "array" -> <<"[">> \o StringifyElements(v.elems) \o <<"]">>
          [] OTHER -> <<"{">> \o StringifyMembers(v.props, 1) \o <<"}">>
        : v \in {x} })

\* The elements of an array, separated by commas.
StringifyElements(elems) ==
  IF elems = <<>> THEN <<>>
  ELSE JSONstringify(Head(elems))
         \o (IF Len(elems) = 1 THEN <<>> ELSE <<",">> \o StringifyElements(Tail(elems)))

\* The members of an object from the k-th property name on; a property
\* whose value is undefined is left out.
StringifyMembers(props, k) ==
  IF k > Len(PropertyOrder) THEN <<>>
  ELSE The({ IF name \notin DOMAIN props \/ props[name] = undefined THEN rest
             ELSE <<"\"">> \o PropertyText[name] \o <<"\"", ":">>
                    \o JSONstringify(props[name])
                    \o (IF rest = <<>> THEN <<>> ELSE <<",">> \o rest)
             : name \in {PropertyOrder[k]}, rest \in {StringifyMembers(props, k + 1)} })

\* --------------------------------------------- saveToStorage (268-285)
\* localStorage.setItem(key, text)
setItem(storage, key, text) ==
  [k \in DOMAIN storage \cup {key} |-> IF k = key THEN text ELSE storage[k]]

\* The storage after saveToStorage(key, data); the storage takes the text
\* (its quota is not reached).
saveToStorage(storage, key, data) == setItem(storage, key, JSONstringify(data))

\* ------------------------------------------------------------ the inputs
\* Order items handed to the email service.  The byte lengths are chosen so
\* that the counted line sizes are 1000, 1500, 2000, 4000, 4500 and 39.
ItemKinds ==
  << [os |-> 4, clientDescription |-> 957,  colors |-> 4, width |-> 1800, height |-> 2400],
     [os |-> 4, clientDescription |-> 1457, colors |-> 4, width |-> 1800, height |-> 2400],
     [os |-> 4, clientDescription |-> 1957, colors |-> 4, width |-> 1800, height |-> 2400],
     [os |-> 4, clientDescription |-> 3957, colors |-> 4, width |-> 1800, height |-> 2400],
     [os |-> 4, clientDescription |-> 4457, colors |-> 4, width |-> 1800, height |-> 2400],
     [os |-> 0, clientDescription |-> 0,    colors |-> 0, width |-> 1050, height |-> 0] >>

OrderItemOf(kind, id) ==
  [id |-> id, os |-> kind.os, clientDescription |-> kind.clientDescription,
   colors |-> kind.colors, width |-> kind.width, height |-> kind.height]

\* The array of the items of the given kinds; the id of an item is its
\* position.
ItemArray(f) == [i \in 1..Len(f) |-> OrderItemOf(ItemKinds[f[i]], i)]

\* The choices of at most n kinds.
KindChoices(n) == UNION { [1..m -> 1..Len(ItemKinds)] : m \in 0..n }

\* ------------------------------------------ variables a specification idles
SplitIdle == splitPc = "idle" /\ splitArg = <<>> /\ splitRet = <<>>

EmptyResult == [success |-> TRUE, sent |-> 0, failed |-> 0, errors |-> <<>>]

NoSettings ==
  [enabled |-> FALSE, targetEmail |-> <<>>, serviceId |-> "",
   templateId |-> "", publicKey |-> ""]

SendIdle ==
  /\ sendPc = "idle" /\ sendItems = <<>> /\ settings = NoSettings
  /\ batches = <<>> /\ batchIdx = 0 /\ result = EmptyResult /\ sendLog = <<>>

ImportIdle ==
  /\ importPc = "idle" /\ files = <<>> /\ fileIdx = 0 /\ locals = NoLocals
  /\ pageNum = 0 /\ importResult = NewImportResult /\ trace = <<>>

\* App.tsx 86-92
DEFAULT_EMAIL_SETTINGS == NoSettings

UtilIdle ==
  /\ utilPc = "idle" /\ utilFn = "" /\ utilArg = undefined /\ utilRet = undefined

AppIdle ==
  /\ items = <<>> /\ totalStock = 0 /\ history = <<>> /\ activeTab = "production"
  /\ isImporting = FALSE /\ emailSettings = DEFAULT_EMAIL_SETTINGS
  /\ isEmailModalOpen = FALSE
  /\ handleImportPDF = [isImporting |-> FALSE, emailSettings |-> DEFAULT_EMAIL_SETTINGS]
  /\ calls = <<>> /\ nextId = 1 /\ lastAlert = ""

StorageIdle == localStorage = <<>>

WorkerIdle ==
  /\ blobUrl = null /\ workerSrc = null /\ objectUrls = {} /\ revoked = {}
  /\ workerCalls = <<>> /\ mounted = FALSE /\ workerLog = <<>>

\* ------------------------------------- specification of the partitioner
SplitInit ==
  /\ splitPc = "call"
  /\ \/ \E f \in KindChoices(MaxItems) : splitArg = ItemArray(f)
     \/ splitArg = ItemArray([i \in 1..MaxBatchItems |-> Len(ItemKinds)])
  /\ splitRet = <<>>
  /\ SendIdle
  /\ ImportIdle
  /\ UtilIdle
  /\ AppIdle
  /\ StorageIdle
  /\ WorkerIdle

\* One call of splitIntoEmailBatches(splitArg).
Split ==
  /\ splitPc = "call"
  /\ splitRet' = splitIntoEmailBatches(splitArg)
  /\ splitPc' = "done"
  /\ UNCHANGED <<splitArg, sendVars, importVars, utilVars, appVars, storageVars, workerVars>>

SplitNext == Split

SplitSpec == SplitInit /\ [][SplitNext]_vars

\* ------------------------------------------------- measures of a result
BatchItems(bs) == [k \in 1..Len(bs) |-> bs[k].items]

ItemSizes(its) == [i \in 1..Len(its) |-> itemSize(its[i])]

BatchSize(b) == SumSeq(ItemSizes(b.items))

\* ------------------------------------------------------------------ C1
\* C1: concatenating the items of the returned batches, in batch order,
\* gives exactly the input array: nothing dropped, duplicated or reordered.
C1_ConcatIsInput ==
  splitPc = "done" => Flatten(BatchItems(splitRet)) = splitArg

C1_Witness ==
  splitPc = "done" /\ Len(splitRet) >= 3 /\ Len(splitRet[2].items) >= 2

\* ------------------------------------------------------------------ C2
\* C2: no returned batch is empty, the empty input gives no batch, and an
\* item larger than the budget by itself is returned as the only item of a
\* batch; the call returns for every input, with at most one batch per item.
C2_NoEmptyBatchOversizedAlone ==
  /\ splitPc = "call" =>
       Len(splitIntoEmailBatches(splitArg)) <= Len(splitArg)
  /\ splitPc = "done" =>
       /\ \A k \in 1..Len(splitRet) : Len(splitRet[k].items) > 0
       /\ (splitArg = <<>> => splitRet = <<>>)
       /\ \A i \in 1..Len(splitArg) :
            itemSize(splitArg[i]) > MAX_EMAIL_SIZE_BYTES =>
              \E k \in 1..Len(splitRet) : splitRet[k].items = <<splitArg[i]>>

C2_Witness ==
  /\ splitPc = "done"
  /\ Len(splitArg) >= 3
  /\ itemSize(splitArg[1]) > MAX_EMAIL_SIZE_BYTES
  /\ itemSize(splitArg[3]) > MAX_EMAIL_SIZE_BYTES
  /\ itemSize(splitArg[2]) < MAX_EMAIL_SIZE_BYTES
  /\ Len(splitRet) >= 3

\* ------------------------------------------------------------------ C3
\* C3: the counted size of every returned batch is at most the budget,
\* except for a batch of one item that is itself larger than the budget.
C3_BatchWithinBudget ==
  splitPc = "done" =>
    \A k \in 1..Len(splitRet) :
      \/ BatchSize(splitRet[k]) <= MAX_EMAIL_SIZE_BYTES
      \/ /\ Len(splitRet[k].items) = 1
         /\ itemSize(splitRet[k].items[1]) > MAX_EMAIL_SIZE_BYTES

C3_Witness ==
  /\ splitPc = "done"
  /\ \E k \in 1..Len(splitRet) :
       Len(splitRet[k].items) >= 3 /\ BatchSize(splitRet[k]) = MAX_EMAIL_SIZE_BYTES
  /\ \E k \in 1..Len(splitRet) : BatchSize(splitRet[k]) > MAX_EMAIL_SIZE_BYTES

\* ------------------------------------------------------------------ C4
\* C4: the k-th returned batch has batchNumber k, and every batch has
\* totalBatches equal to the number of returned batches (never the 0 it
\* was built with).
C4_NumberingAndTotal ==
  splitPc = "done" =>
    \A k \in 1..Len(splitRet) :
      /\ splitRet[k].batchNumber = k
      /\ splitRet[k].totalBatches = Len(splitRet)
      /\ splitRet[k].totalBatches # 0

C4_Witness == splitPc = "done" /\ Len(splitRet) = 3

\* ------------------------------------------------------------------ C5
\* C5: the partition is greedy.  A batch is closed only when the next
\* item would take it strictly over the budget (the closed batch plus
\* the first item of the next one exceeds the budget), an item is added
\* to a non-empty batch only when the total stays within the budget (so a
\* total of exactly the budget stays), and the sizes 1000,1000,1000,1500
\* split as [1000,1000,1000],[1500].
C5_Greedy ==
  splitPc = "done" =>
    /\ \A k \in 1..(Len(splitRet) - 1) :
         BatchSize(splitRet[k]) + itemSize(splitRet[k + 1].items[1])
           > MAX_EMAIL_SIZE_BYTES
    /\ \A k \in 1..Len(splitRet) :
         \A j \in 2..Len(splitRet[k].items) :
           SumSeq(ItemSizes(SubSeq(splitRet[k].items, 1, j)))
             <= MAX_EMAIL_SIZE_BYTES
    /\ (ItemSizes(splitArg) = <<1000, 1000, 1000, 1500>> =>
          [k \in 1..Len(splitRet) |-> ItemSizes(splitRet[k].items)]
            = << <<1000, 1000, 1000>>, <<1500>> >>)
    /\ (ItemSizes(splitArg) = <<1000, 1000, 2000, 1000>> =>
          [k \in 1..Len(splitRet) |-> ItemSizes(splitRet[k].items)]
            = << <<1000, 1000, 2000>>, <<1000>> >>)

C5_Witness ==
  /\ splitPc = "done"
  /\ ItemSizes(splitArg) = <<1000, 1000, 1000, 1500>>
  /\ Len(splitRet) = 2
  /\ splitRet[2].totalBatches = 2

\* ------------------------------------------ specification of the sender
\* Target addresses: valid, valid once trimmed, no top-level part, a space
\* inside, empty.
TargetEmails ==
  { <<"a", "@", "b", ".", "c">>,
    <<" ", "a", "@", "b", ".", "c", " ">>,
    <<"a", "@", "b">>,
    <<"a", " ", "b", "@", "c", ".", "d">>,
    <<>> }

SettingsSet ==
  [enabled : BOOLEAN, targetEmail : TargetEmails,
   serviceId : {"", "service_1"}, templateId : {"", "template_1"},
   publicKey : {"", "key_1"}]

RejectReasons == {"Network Error"}

SendInit ==
  /\ SplitIdle
  /\ ImportIdle
  /\ UtilIdle
  /\ AppIdle
  /\ StorageIdle
  /\ WorkerIdle
  /\ sendPc = "call"
  /\ \E f \in KindChoices(MaxSendItems) : sendItems = ItemArray(f)
  /\ settings \in SettingsSet
  /\ batches = <<>>
  /\ batchIdx = 0
  /\ result = EmptyResult
  /\ sendLog = <<>>

\* lines 88-145: the call up to its first await, or to an early return.
SendCall ==
  /\ sendPc = "call"
  /\ IF ~settings.enabled
     THEN /\ sendPc' = "done"
          /\ UNCHANGED <<result, batches, batchIdx, sendLog>>
     ELSE IF ~validateEmail(settings.targetEmail)
     THEN /\ sendPc' = "done"
          /\ result' = [result EXCEPT
                          !.errors = Append(@, <<"Email invalido", settings.targetEmail>>),
                          !.success = FALSE]
          /\ UNCHANGED <<batches, batchIdx, sendLog>>
     ELSE IF SettingsIncomplete(settings)
     THEN /\ sendPc' = "done"
          /\ result' = [result EXCEPT
                          !.errors = Append(@, <<"Configuracoes de email incompletas">>),
                          !.success = FALSE]
          /\ UNCHANGED <<batches, batchIdx, sendLog>>
     ELSE IF Len(sendItems) = 0
     THEN /\ sendPc' = "done"
          /\ UNCHANGED <<result, batches, batchIdx, sendLog>>
     ELSE LET bs == splitIntoEmailBatches(sendItems)
          IN /\ batches' = bs
             /\ batchIdx' = 1
             /\ sendLog' = Append(sendLog, SendEvent(settings, bs[1]))
             /\ sendPc' = "awaitSend"
             /\ UNCHANGED result
  /\ UNCHANGED <<sendItems, settings, splitVars, importVars, utilVars, appVars, storageVars, workerVars>>

\* What follows the settling of the send of batch batchIdx: the next
\* iteration up to its await, or the return of line 162.
AfterSettle(log, rejected) ==
  LET next == LoopAdvance(batchIdx, batches, rejected)
  IN IF next = 0
     THEN /\ sendPc' = "done"
          /\ sendLog' = log
          /\ UNCHANGED batchIdx
     ELSE /\ sendPc' = "awaitSend"
          /\ batchIdx' = next
          /\ sendLog' = Append(log, SendEvent(settings, batches[next]))

\* lines 147-152: emailjs.send resolved.
SendResolved ==
  /\ sendPc = "awaitSend"
  /\ result' = OnResolved(result, batches[batchIdx])
  /\ AfterSettle(Append(sendLog, SettleEvent("resolved", batches[batchIdx])), FALSE)
  /\ UNCHANGED <<sendItems, settings, batches, splitVars, importVars, utilVars, appVars, storageVars, workerVars>>

\* lines 153-159: emailjs.send rejected.
SendRejected ==
  /\ sendPc = "awaitSend"
  /\ \E msg \in RejectReasons :
       result' = OnRejected(result, batches[batchIdx], msg)
  /\ AfterSettle(Append(sendLog, SettleEvent("rejected", batches[batchIdx])), TRUE)
  /\ UNCHANGED <<sendItems, settings, batches, splitVars, importVars, utilVars, appVars, storageVars, workerVars>>

SendNext == SendCall \/ SendResolved \/ SendRejected

SendSpec == SendInit /\ [][SendNext]_vars

\* The call went past the checks of lines 96-120.
PassedChecks ==
  /\ settings.enabled
  /\ validateEmail(settings.targetEmail)
  /\ ~SettingsIncomplete(settings)
  /\ Len(sendItems) > 0

Events(kind) == SelectSeq(sendLog, LAMBDA e : e.ev = kind)

BatchNumbers(events) == [i \in 1..Len(events) |-> events[i].batchNumber]

\* ----------------------------------------------------------------- C22
\* The lines that sendBatchNotification transmits for a batch.
SentLines(batch) == formatEmailMessage(batch).lines

\* C22: for every item of every returned batch, the line that the
\* partitioner measured is the line that formatEmailMessage emits for it,
\* so that the counted size of a batch is the byte length of the item
\* lines that are sent.
C22_MeasuredLineIsSentLine ==
  splitPc = "done" =>
    \A k \in 1..Len(splitRet) :
      /\ \A j \in 1..Len(splitRet[k].items) :
           formatItemForEmail(splitRet[k].items[j], 1) = SentLines(splitRet[k])[j]
      /\ BatchSize(splitRet[k])
           = SumSeq([j \in 1..Len(splitRet[k].items) |->
                       byteLength(SentLines(splitRet[k])[j])])

\* ------------------------------------------------------------------ C6
\* C6: past the settings checks with a non-empty item list, the transport
\* send is invoked once per batch in increasing batch number, the send of
\* batch k+1 only after the send of batch k resolved or rejected, whether
\* or not an earlier send rejected, and no batch is sent twice.
C6_OneSendPerBatchInOrder ==
  /\ \A p \in 1..Len(sendLog) :
       IF p % 2 = 1
       THEN /\ sendLog[p].ev = "send"
            /\ sendLog[p].batchNumber = (p + 1) \div 2
            /\ sendLog[p].message = formatEmailMessage(batches[(p + 1) \div 2])
       ELSE /\ sendLog[p].ev \in {"resolved", "rejected"}
            /\ sendLog[p].batchNumber = p \div 2
  /\ (sendPc = "awaitSend") = (Len(sendLog) % 2 = 1)
  /\ (sendPc = "done" /\ PassedChecks) =>
       /\ batches = splitIntoEmailBatches(sendItems)
       /\ BatchNumbers(Events("send")) = [k \in 1..Len(batches) |-> k]
  /\ (sendPc = "done" /\ ~PassedChecks) => sendLog = <<>>

C6_Witness ==
  /\ sendPc = "done"
  /\ Len(batches) = 3
  /\ BatchNumbers(Events("rejected")) = <<1, 2>>
  /\ BatchNumbers(Events("resolved")) = <<3>>

\* ------------------------------------------------------------------ C7
\* C7: when the call returns after its send loop, sent + failed is the
\* number of input items, sent counts the items of the batches whose send
\* resolved, errors has one entry per rejected batch in batch order, and
\* success is true exactly when no send rejected.
C7_AggregateResult ==
  (sendPc = "done" /\ PassedChecks) =>
    /\ result.sent + result.failed = Len(sendItems)
    /\ result.sent =
         SumSeq([i \in 1..Len(Events("resolved")) |->
                   Len(batches[Events("resolved")[i].batchNumber].items)])
    /\ Len(result.errors) = Len(Events("rejected"))
    /\ \A i \in 1..Len(result.errors) :
         /\ result.errors[i][1] = "Batch"
         /\ result.errors[i][2] = Events("rejected")[i].batchNumber
    /\ result.success = (Events("rejected") = <<>>)

C7_Witness ==
  /\ sendPc = "done"
  /\ PassedChecks
  /\ Len(batches) = 3
  /\ BatchNumbers(Events("rejected")) = <<1, 3>>
  /\ result.sent > 0
  /\ ~result.success

\* ---------------------------------------- specification of the importer
\* File names: dimensions in the name; upper-case extension and no
\* dimensions; not a PDF; dimensions in the name that fail validation.
FileNames ==
  { <<"4", "7", "8", "7", "_", "1", "8", "0", "x", "2", "4", "0", "m", "m", "_", "C", "M", "Y", "K", ".", "p", "d", "f">>,
    <<"j", "o", "b", ".", "P", "D", "F">>,
    <<"n", "o", "t", "e", "s", ".", "t", "x", "t">>,
    <<"9", "0", "0", "0", "x", "1", "0", "m", "m", ".", "p", "d", "f">> }

\* Page sizes in points: A4, and a page wider than 500 cm.
PageViewports ==
  { [width |-> 595, height |-> 842], [width |-> 20000, height |-> 842] }

NoViewport == [width |-> 0, height |-> 0]

FileErrors == {"Invalid PDF structure"}

PageErrors == {"Invalid page request"}

ImportInit ==
  /\ SplitIdle
  /\ SendIdle
  /\ UtilIdle
  /\ AppIdle
  /\ StorageIdle
  /\ WorkerIdle
  /\ importPc = "call"
  /\ \E n \in 0..MaxFiles :
       \E names \in [1..n -> FileNames] :
         \E pages \in [1..n -> 1..MaxPages] :
           /\ SumSeq(pages) <= MaxPages
           /\ \A i \in 1..n : ~IsPdfName(names[i]) => pages[i] = 1
           /\ files = [i \in 1..n |-> [name |-> names[i], numPages |-> pages[i]]]
  /\ fileIdx = 0
  /\ locals = NoLocals
  /\ pageNum = 0
  /\ importResult = NewImportResult
  /\ trace = <<>>

\* What happened to which file (its index) and page; the "open" of a file
\* carries its number of pages.
Event(ev, file, page) == [ev |-> ev, file |-> file, page |-> page]

\* What happened to a page that was fetched, with the page size that
\* getViewport gives for it.
PageEvent(ev, file, page, viewport) ==
  [ev |-> ev, file |-> file, page |-> page, viewport |-> viewport]

\* lines 374-389: the call, up to the loop over the files
ImportCall ==
  /\ importPc = "call"
  /\ IF Len(files) = 0
     THEN /\ importResult' = OnNoFiles(importResult)
          /\ importPc' = "done"
          /\ fileIdx' = fileIdx
     ELSE /\ importResult' = importResult
          /\ importPc' = "file"
          /\ fileIdx' = 1
  /\ UNCHANGED <<files, locals, pageNum, trace, splitVars, sendVars, utilVars, appVars, storageVars, workerVars>>

\* line 389: i++ and the next iteration
NextFile ==
  /\ fileIdx' = fileIdx + 1
  /\ importPc' = "file"
  /\ locals' = NoLocals
  /\ pageNum' = 0

\* lines 395-398: a file without the .pdf extension
ImportSkipFile ==
  /\ importPc = "file"
  /\ fileIdx <= Len(files)
  /\ ~IsPdfName(files[fileIdx].name)
  /\ trace' = Append(trace, Event("skip", fileIdx, 0))
  /\ NextFile
  /\ UNCHANGED <<files, importResult, splitVars, sendVars, utilVars, appVars, storageVars, workerVars>>

\* lines 400-401 and 475-481: arrayBuffer() or getDocument() rejects
ImportFileFails ==
  /\ importPc = "file"
  /\ fileIdx <= Len(files)
  /\ IsPdfName(files[fileIdx].name)
  /\ \E msg \in FileErrors :
       importResult' = OnFileError(importResult, files[fileIdx].name, msg)
  /\ trace' = Append(trace, Event("fail", fileIdx, 0))
  /\ NextFile
  /\ UNCHANGED <<files, splitVars, sendVars, utilVars, appVars, storageVars, workerVars>>

\* lines 400-415: the document opens
ImportOpenFile ==
  /\ importPc = "file"
  /\ fileIdx <= Len(files)
  /\ IsPdfName(files[fileIdx].name)
  /\ locals' = FileLocals(files[fileIdx])
  /\ trace' = Append(trace, Event("open", fileIdx, files[fileIdx].numPages))
  /\ pageNum' = 1
  /\ importPc' = "page"
  /\ UNCHANGED <<files, fileIdx, importResult, splitVars, sendVars, utilVars, appVars, storageVars, workerVars>>

\* lines 417 and 467-471: getPage() rejects
ImportPageThrows ==
  /\ importPc = "page"
  /\ pageNum <= locals.numPages
  /\ \E msg \in PageErrors :
       importResult' = OnPageError(importResult, files[fileIdx].name, pageNum, msg)
  /\ trace' = Append(trace, Event("page-error", fileIdx, pageNum))
  /\ pageNum' = NextPage(pageNum, locals.numPages, FALSE)
  /\ UNCHANGED <<files, fileIdx, locals, importPc, splitVars, sendVars, utilVars, appVars, storageVars, workerVars>>

\* lines 417-466: the page is fetched; its dimensions are validated and
\* its item is created
ImportPage ==
  /\ importPc = "page"
  /\ pageNum <= locals.numPages
  /\ LET name == files[fileIdx].name
     IN \E viewport \in (IF locals.dimsFromFilename = null THEN PageViewports
                                                           ELSE {NoViewport}) :
          LET final == FinalDimensions(locals.dimsFromFilename, viewport)
              dimValidation == validateDimensions(final.width, final.height)
          IN IF ~dimValidation.valid
             THEN /\ importResult' = OnPageInvalid(importResult, name, pageNum,
                                                   dimValidation.error)
                  /\ trace' = Append(trace, PageEvent("page-invalid", fileIdx,
                                                    pageNum, viewport))
                  /\ pageNum' = NextPage(pageNum, locals.numPages, FALSE)
             ELSE /\ importResult' =
                       OnItem(importResult,
                              NewItem(locals, pageNum, final,
                                      importResult.itemsCreated + 1))
                  /\ trace' = Append(trace, PageEvent("page-item", fileIdx,
                                                    pageNum, viewport))
                  /\ pageNum' = NextPage(pageNum, locals.numPages, TRUE)
  /\ UNCHANGED <<files, fileIdx, locals, importPc, splitVars, sendVars, utilVars, appVars, storageVars, workerVars>>

\* line 474: the pages are done
ImportFileDone ==
  /\ importPc = "page"
  /\ pageNum > locals.numPages
  /\ importResult' = OnFileDone(importResult)
  /\ trace' = Append(trace, Event("done", fileIdx, 0))
  /\ NextFile
  /\ UNCHANGED <<files, splitVars, sendVars, utilVars, appVars, storageVars, workerVars>>

\* lines 484-490: the loop is over
ImportReturn ==
  /\ importPc = "file"
  /\ fileIdx > Len(files)
  /\ importPc' = "done"
  /\ UNCHANGED <<files, fileIdx, locals, pageNum, importResult, trace,
                 splitVars, sendVars, utilVars, appVars, storageVars, workerVars>>

ImportNext ==
  \/ ImportCall
  \/ ImportSkipFile
  \/ ImportFileFails
  \/ ImportOpenFile
  \/ ImportPageThrows
  \/ ImportPage
  \/ ImportFileDone
  \/ ImportReturn

ImportSpec == ImportInit /\ [][ImportNext]_vars

\* ------------------------------------------------- measures of an import
TraceOf(kinds) == SelectSeq(trace, LAMBDA e : e.ev \in kinds)

FileEvents == TraceOf({"skip", "fail", "open"})

PageEvents == TraceOf({"page-item", "page-invalid", "page-error"})

\* The events of the pages of file f.
PageEventsOf(f) == SelectSeq(PageEvents, LAMBDA e : e.file = f)

FileErrorsOf(r) == SelectSeq(r.errors, LAMBDA e : e.page = 0 /\ e.file # <<>>)

PageErrorsOf(r) == SelectSeq(r.errors, LAMBDA e : e.page > 0)

\* ------------------------------------------------------------------ C8
\* C8: every file is visited once, in index order, whatever happened to
\* the files before it; a file that cannot be read or opened adds one
\* error and one to filesFailed; a file without the .pdf extension adds
\* neither; on return filesProcessed + filesFailed + skipped files is the
\* number of files.
C8_EveryFileVisitedOnce ==
  /\ \A i \in 1..Len(FileEvents) : FileEvents[i].file = i
  /\ \A i \in 1..Len(FileEvents) :
       (FileEvents[i].ev = "skip") = ~IsPdfName(files[i].name)
  /\ importResult.filesFailed = Len(TraceOf({"fail"}))
  /\ importResult.filesProcessed = Len(TraceOf({"done"}))
  /\ Len(FileErrorsOf(importResult)) = Len(TraceOf({"fail"}))
  /\ \A i \in 1..Len(FileErrorsOf(importResult)) :
       FileErrorsOf(importResult)[i].file = files[TraceOf({"fail"})[i].file].name
  /\ \A i \in 1..Len(importResult.errors) :
       importResult.errors[i].file # <<>> => IsPdfName(importResult.errors[i].file)
  /\ importPc = "done" =>
       /\ Len(FileEvents) = Len(files)
       /\ importResult.filesProcessed + importResult.filesFailed
            + Len(TraceOf({"skip"})) = Len(files)

\* A file is processed after the file before it failed.
C8_Witness ==
  /\ importPc = "done"
  /\ Len(files) = 2
  /\ FileEvents[1].ev = "fail"
  /\ FileEvents[2].ev = "open"
  /\ importResult.filesFailed = 1
  /\ importResult.filesProcessed = 1
  /\ importResult.itemsCreated >= 1
  /\ Len(importResult.errors) = 1

\* A file without the extension is skipped after a failed one.
C8_WitnessSkip ==
  /\ importPc = "done"
  /\ Len(files) = 2
  /\ FileEvents[1].ev = "fail"
  /\ FileEvents[2].ev = "skip"
  /\ importResult.filesFailed = 1
  /\ importResult.filesProcessed = 0
  /\ Len(importResult.errors) = 1

\* ------------------------------------------------------------------ C9
\* C9 as stated: on any file collection, empty or not, success is true
\* exactly when filesFailed is 0.
C9_SuccessIffNoFileFailed ==
  importPc = "done" =>
    (importResult.success = (importResult.filesFailed = 0))

\* C9 as amended: for a collection with at least one file, success is true
\* exactly when filesFailed is 0, and page-level errors leave it true while
\* they appear in errors; for the empty collection the call returns
\* success false with filesFailed 0 and the one error "no file selected".
C9_SuccessIffNoFileFailedUnlessEmpty ==
  importPc = "done" =>
    IF Len(files) = 0
    THEN /\ ~importResult.success
         /\ importResult.filesFailed = 0
         /\ importResult.errors =
              <<ImportError(<<>>, 0, "Nenhum arquivo selecionado")>>
    ELSE /\ importResult.success = (importResult.filesFailed = 0)
         /\ Len(PageErrorsOf(importResult))
              = Len(TraceOf({"page-invalid", "page-error"}))

C9_Witness ==
  /\ importPc = "done"
  /\ Len(files) > 0
  /\ importResult.success
  /\ Len(PageErrorsOf(importResult)) >= 2
  /\ Len(TraceOf({"page-invalid"})) >= 1
  /\ Len(TraceOf({"page-error"})) >= 1

\* ----------------------------------------------------------------- C10
\* C10: a page whose dimensions fail validation, or whose fetch throws,
\* adds one per-page error and no item, and the next page of the same file
\* is processed: every page of an opened file is processed once in page
\* order, the other pages give their items, and the file counts in
\* filesProcessed, not in filesFailed.
C10_PageErrorKeepsFile ==
  /\ Len(PageErrorsOf(importResult)) = Len(TraceOf({"page-invalid", "page-error"}))
  /\ \A i \in 1..Len(PageErrorsOf(importResult)) :
       LET e == TraceOf({"page-invalid", "page-error"})[i]
       IN /\ PageErrorsOf(importResult)[i].file = files[e.file].name
          /\ PageErrorsOf(importResult)[i].page = e.page
  /\ importResult.itemsCreated = Len(TraceOf({"page-item"}))
  /\ Len(importResult.items) = Len(TraceOf({"page-item"}))
  /\ \A i \in 1..Len(importResult.items) :
       LET e == TraceOf({"page-item"})[i]
       IN /\ importResult.items[i].clientDescription.base = fileNameBase(files[e.file].name)
          /\ importResult.items[i].clientDescription.page \in {0, e.page}
  /\ \A i \in 1..Len(TraceOf({"open"})) :
       LET o == TraceOf({"open"})[i]
       IN (importPc = "done" \/ fileIdx > o.file) =>
            /\ [j \in 1..Len(PageEventsOf(o.file)) |-> PageEventsOf(o.file)[j].page]
                 = [j \in 1..o.page |-> j]
            /\ \E j \in 1..Len(trace) : trace[j] = Event("done", o.file, 0)
  /\ importResult.filesProcessed = Len(TraceOf({"done"}))
  /\ importResult.filesFailed = Len(TraceOf({"fail"}))
  /\ importPc = "done" => Len(TraceOf({"done"})) = Len(TraceOf({"open"}))

C10_Witness ==
  /\ importPc = "done"
  /\ Len(files) = 1
  /\ [j \in 1..Len(trace) |-> trace[j].ev]
       = <<"open", "page-invalid", "page-item", "done">>
  /\ importResult.filesProcessed = 1
  /\ importResult.filesFailed = 0
  /\ importResult.itemsCreated = 1
  /\ importResult.success

\* ----------------------------------------------------------------- C11
\* The file and the page size behind the i-th item of the result.
ItemEvent(i) == TraceOf({"page-item"})[i]

\* C11: the width and height of an item are both the ones extracted from
\* the name of its file whenever extractDimensions returns a value for that
\* name, and both the ones computed from the geometry of its page with a
\* margin of 1 cm per side only when extractDimensions returns null; the
\* two sources are never mixed within one item.
C11_FilenameDimensionsFirst ==
  /\ Len(importResult.items) = Len(TraceOf({"page-item"}))
  /\ \A i \in 1..Len(importResult.items) :
       LET item == importResult.items[i]
           fromName == extractDimensions(files[ItemEvent(i).file].name)
           fromPage == calculatePdfDimensions(ItemEvent(i).viewport.width,
                                              ItemEvent(i).viewport.height, 1)
       IN IF fromName # null
          THEN /\ item.width = fromName.width
               /\ item.height = fromName.height
               /\ item.observations = "Dimensoes extraidas do nome do arquivo"
          ELSE /\ item.width = fromPage.width
               /\ item.height = fromPage.height
               /\ item.observations = "Importado de PDF (+1cm margem/lado)"

\* One import gives an item sized by its file name and an item sized by
\* its page.
C11_Witness ==
  /\ importPc = "done"
  /\ Len(importResult.items) = 2
  /\ extractDimensions(files[ItemEvent(1).file].name) # null
  /\ importResult.items[1].width = 1800
  /\ importResult.items[1].height = 2400
  /\ extractDimensions(files[ItemEvent(2).file].name) = null
  /\ importResult.items[2].width = 2299
  /\ importResult.items[2].height = 3170

\* ----------------------------------------------------------------- C12
\* The candidate dimensions of a fetched page, before validation.
Candidate(e) == FinalDimensions(extractDimensions(files[e.file].name), e.viewport)

InRange(cm) == 0 < cm /\ cm <= MAX_DIMENSION

ValidationErrors ==
  {"Dimensoes devem ser maiores que zero", "Dimensoes muito grandes (maximo 500cm)"}

\* C12: every item of the result has 0 < width <= 500 and 0 < height <= 500
\* (centimetres); a fetched page whose candidate dimensions are outside that
\* range is rejected with a per-page error and gives no item, its
\* dimensions are never clamped into the range; an accepted candidate
\* keeps its width and height through migrateOrderItem.
C12_ItemDimensionsInRange ==
  /\ \A i \in 1..Len(importResult.items) :
       /\ InRange(importResult.items[i].width)
       /\ InRange(importResult.items[i].height)
       /\ importResult.items[i].width = Candidate(ItemEvent(i)).width
       /\ importResult.items[i].height = Candidate(ItemEvent(i)).height
  /\ \A j \in 1..Len(trace) :
       trace[j].ev \in {"page-item", "page-invalid"} =>
         ((trace[j].ev = "page-item")
            = (InRange(Candidate(trace[j]).width) /\ InRange(Candidate(trace[j]).height)))
  /\ Len(SelectSeq(importResult.errors, LAMBDA e : e.error \in ValidationErrors))
       = Len(TraceOf({"page-invalid"}))
  /\ Len(importResult.items) = Len(TraceOf({"page-item"}))

\* A page wider than 500 cm is rejected with its error and a page of the
\* same import gives its item.
C12_Witness ==
  /\ importPc = "done"
  /\ Len(importResult.items) >= 1
  /\ \E j \in 1..Len(trace) :
       /\ trace[j].ev = "page-invalid"
       /\ Candidate(trace[j]).width > MAX_DIMENSION
  /\ \E k \in 1..Len(importResult.errors) :
       importResult.errors[k].error = "Dimensoes muito grandes (maximo 500cm)"

\* --------------------------------------- specification of the utilities
\* One call of one utility on one input.
MaxElems == 2

\* What Math.random().toString(36).substr(2, 9) can give.
RandomIds == { <<"k", "3", "j", "9", "x", "2", "m", "1", "q">>, <<"7", "d", "0", "f", "z">> }

Urgente == <<"U", "r", "g", "e", "n", "t", "e">>

\* Numbers: 0, -5, 3.7, 4, 0.0798, 0.05, -0.02, 600.
Numbers ==
  { Num(0), Num(0 - 5 * Unit), Num(37000), Num(4 * Unit), Num(DEFAULT_RATE),
    Num(500), Num(0 - 200), Num(600 * Unit) }

Strings ==
  { Str(<<>>), Str(<<"a", "b", "c">>), Str(<<"7">>), Str(<<" ", "1", "2", "a", "b", "c">>),
    Str(<<"0", ".", "0", "5">>), Str(<<"-", "3">>), Str(Novo), Str(Urgente) }

\* Values of every type.
Values ==
  {undefined, null, NaN, Bool(TRUE), Bool(FALSE), Obj(<<>>), Arr(<<>>),
   Arr(<<Num(5 * Unit)>>)} \cup Numbers \cup Strings

Fields ==
  {"id", "os", "clientDescription", "colors", "jobType", "date", "width",
   "height", "games", "pricePerCm2", "observations"}

\* A stored item that has every field.
StoredItem(width, jobType, pricePerCm2) ==
  Obj([id |-> Str(<<"1">>), os |-> Str(<<"4", "7", "8", "7">>),
       clientDescription |-> Str(<<"A", "l", "i", "b", "e", "m">>), colors |-> Str(<<"C", "M", "Y", "K">>),
       jobType |-> jobType, date |-> Str(<<"2", "0", "2", "3", "-", "1", "1", "-", "2", "7">>),
       width |-> width, height |-> Num(24 * Unit), games |-> Num(4 * Unit),
       pricePerCm2 |-> pricePerCm2, observations |-> Str(<<>>)])

\* Inputs of migrateOrderItem: values that are not objects, objects with one
\* property, and stored items.
ItemInputs ==
  Values
    \cup { Obj([key \in {field} |-> value]) : field \in Fields, value \in Values }
    \cup { StoredItem(width, jobType, price) :
             width \in {Num(18 * Unit), Num(600 * Unit), Num(0)},
             jobType \in {Str(Novo), Str(Urgente)},
             price \in {Num(DEFAULT_RATE), Num(0)} }

\* Elements of a stored collection: items within and outside the valid
\* dimensions, an item without properties, and values that are not objects.
Elements ==
  { StoredItem(Num(18 * Unit), Str(Novo), Num(DEFAULT_RATE)),
    StoredItem(Num(600 * Unit), Str(Novo), Num(DEFAULT_RATE)),
    Obj([width |-> Num(0 - 3 * Unit), height |-> Num(0)]),
    null, Str(<<"a", "b", "c">>), Num(7 * Unit) }

Collections == UNION { [1..n -> Elements] : n \in 0..MaxElems }

BatchInputs ==
  { null, undefined, Str(<<"a", "b", "c">>), Obj(<<>>),
    Obj([id |-> Str(<<"b">>), items |-> Str(<<"a", "b", "c">>)]) }
    \cup { Obj([id |-> Str(<<"b">>), stockSnapshot |-> Num(10000 * Unit),
                items |-> Arr(elems)]) : elems \in Collections }

SavedInputs ==
  { null, Str(<<"a", "b", "c">>), Obj(<<>>), Obj([items |-> Str(<<"a", "b", "c">>)]) }
    \cup { Obj([items |-> Arr(elems), totalStock |-> Num(10000 * Unit)]) :
             elems \in Collections }

\* File names for the extractors: the name of the example with underscores
\* and with spaces, a run of three digits, a run of digits glued to letters
\* before a delimited run, and a name without digits.
ExtractorNames ==
  { <<"4", "7", "8", "7", "_", "1", "8", "0", "x", "2", "4", "0", "m", "m", "_", "C", "M", "Y", "K", ".", "p", "d", "f">>,
    <<"4", "7", "8", "7", " ", "1", "8", "0", "x", "2", "4", "0", "m", "m", " ", "C", "M", "Y", "K", ".", "p", "d", "f">>,
    <<"1", "2", "3", ".", "p", "d", "f">>,
    <<"a", "1", "2", "3", "4", "5", " ", "6", "7", "8", "9", "0", "-", "1", "1", ".", "p", "d", "f">>,
    <<"j", "o", "b", ".", "p", "d", "f">> }

\* App.tsx 38-40
STORAGE_KEY == "flexcell_calculator_data"

HISTORY_KEY == "flexcell_history_data"

EMAIL_SETTINGS_KEY == "flexcell_email_settings"

\* Texts that a key of the storage can hold: '', 0, null, false, "", [],
\* the cut text {, abc, an array with one item, an object, 5.
StoredTexts ==
  { <<>>,
    <<"0">>,
    <<"n", "u", "l", "l">>,
    <<"f", "a", "l", "s", "e">>,
    <<"\"", "\"">>,
    <<"[", "]">>,
    <<"{">>,
    <<"a", "b", "c">>,
    <<"[", "{", "\"", "i", "d", "\"", ":", "\"", "1", "\"", "}", "]">>,
    <<"{", "\"", "t", "o", "t", "a", "l", "S", "t", "o", "c", "k", "\"", ":", "9", "0", "0", "0", "}">>,
    <<"5">> }

\* What the storage holds: the key that is read is absent or holds one of
\* the texts, and the key of the history is absent or holds an array.
StorageInputs ==
  { <<>>, [k \in {HISTORY_KEY} |-> <<"[", "]">>] }
  \cup { [k \in {STORAGE_KEY} |-> text] : text \in StoredTexts }
  \cup { [k \in {STORAGE_KEY, HISTORY_KEY} |->
            IF k = STORAGE_KEY THEN text ELSE <<"[", "]">>] : text \in StoredTexts }

\* loadFromStorage(STORAGE_KEY, defaultValue) on a storage.
LoadInputs ==
  [storage : StorageInputs, denied : BOOLEAN, key : {STORAGE_KEY},
   defaultValue : {null, Arr(<<>>), Num(10000 * Unit)}]

UtilInputs(fn) ==
  CASE fn = "validateGames" -> Values
    [] fn = "migrateOrderItem" -> ItemInputs
    [] fn = "migrateHistoryBatch" -> BatchInputs
    [] fn = "loadItems" -> SavedInputs
    [] fn = "loadFromStorage" -> LoadInputs
    [] OTHER -> ExtractorNames

UtilFns ==
  {"validateGames", "migrateOrderItem", "migrateHistoryBatch", "loadItems",
   "loadFromStorage", "extractOS", "extractDimensions", "detectColors"}

UtilInit ==
  /\ SplitIdle
  /\ SendIdle
  /\ ImportIdle
  /\ WorkerIdle
  /\ AppIdle
  /\ utilPc = "call"
  /\ utilFn \in UtilFns
  /\ utilArg \in UtilInputs(utilFn)
  /\ utilRet = undefined
  /\ localStorage = IF utilFn = "loadFromStorage" THEN utilArg.storage ELSE <<>>

Returned ==
  /\ utilPc' = "done"
  /\ UNCHANGED <<utilFn, utilArg, splitVars, sendVars, importVars, appVars, storageVars, workerVars>>

CallValidateGames ==
  /\ utilPc = "call" /\ utilFn = "validateGames"
  /\ utilRet' = validateGamesAny(utilArg)
  /\ Returned

CallMigrateOrderItem ==
  /\ utilPc = "call" /\ utilFn = "migrateOrderItem"
  /\ \E random \in RandomIds : utilRet' = migrateOrderItemAny(utilArg, random)
  /\ Returned

\* The elements of the items of a batch or of the stored working set.
ElementsOf(x) ==
  IF TagOf(x) = "object" /\ TagOf(Get(x, "items")) = "array"
  THEN Get(x, "items").elems ELSE <<>>

CallMigrateHistoryBatch ==
  /\ utilPc = "call" /\ utilFn = "migrateHistoryBatch"
  /\ \E randoms \in [1..Len(ElementsOf(utilArg)) -> RandomIds] :
       utilRet' = migrateHistoryBatchAny(utilArg, randoms)
  /\ Returned

CallLoadItems ==
  /\ utilPc = "call" /\ utilFn = "loadItems"
  /\ \E randoms \in [1..Len(ElementsOf(utilArg)) -> RandomIds] :
       utilRet' = LoadItems(utilArg, randoms)
  /\ Returned

CallLoadFromStorage ==
  /\ utilPc = "call" /\ utilFn = "loadFromStorage"
  /\ LET r == loadFromStorage(localStorage, utilArg.denied, utilArg.key,
                               utilArg.defaultValue)
     IN /\ utilRet' = r.ret
        /\ localStorage' = r.storage
  /\ utilPc' = "done"
  /\ UNCHANGED <<utilFn, utilArg, splitVars, sendVars, importVars, appVars, workerVars>>

CallExtractOS ==
  /\ utilPc = "call" /\ utilFn = "extractOS"
  /\ utilRet' = extractOS(utilArg)
  /\ Returned

CallExtractDimensions ==
  /\ utilPc = "call" /\ utilFn = "extractDimensions"
  /\ utilRet' = extractDimensions(utilArg)
  /\ Returned

CallDetectColors ==
  /\ utilPc = "call" /\ utilFn = "detectColors"
  /\ utilRet' = detectColors(utilArg)
  /\ Returned

UtilNext ==
  \/ CallValidateGames
  \/ CallMigrateOrderItem
  \/ CallMigrateHistoryBatch
  \/ CallLoadItems
  \/ CallLoadFromStorage
  \/ CallExtractOS
  \/ CallExtractDimensions
  \/ CallDetectColors

UtilSpec == UtilInit /\ [][UtilNext]_vars

\* A call of fn has returned.
Done(fn) == utilPc = "done" /\ utilFn = fn

\* ----------------------------------------------------------------- C15
NotAnObject(x) ==
  TagOf(x) \in {"undefined", "null", "NaN", "boolean", "number", "string"}

\* C15: migrateOrderItem throws exactly when its input is not an object
\* (null, undefined, a number, a string, a boolean); for every object, the
\* empty object included, it returns an item with every field; for the
\* empty object the item has games 1, pricePerCm2 0.0798, a generated id
\* that is not empty, the date of the day, empty text fields, jobType
\* 'Novo' and width = height = 0.
C15_ThrowsIffNotObject ==
  Done("migrateOrderItem") =>
    /\ (utilRet = Thrown("Invalid order item")) = NotAnObject(utilArg)
    /\ ~NotAnObject(utilArg) =>
         /\ TagOf(utilRet) = "object"
         /\ DOMAIN utilRet.props = Fields
    /\ utilArg = Obj(<<>>) =>
         /\ utilRet.props.games = Num(Unit)
         /\ utilRet.props.pricePerCm2 = Num(798)
         /\ utilRet.props.id.s \in RandomIds
         /\ utilRet.props.id.s # <<>>
         /\ utilRet.props.date = Str(Today)
         /\ utilRet.props.os = Str(<<>>)
         /\ utilRet.props.clientDescription = Str(<<>>)
         /\ utilRet.props.colors = Str(<<>>)
         /\ utilRet.props.observations = Str(<<>>)
         /\ utilRet.props.jobType = Str(Novo)
         /\ utilRet.props.width = Num(0)
         /\ utilRet.props.height = Num(0)

\* The empty object has been migrated.
C15_Witness ==
  /\ Done("migrateOrderItem")
  /\ utilArg = Obj(<<>>)
  /\ TagOf(utilRet) = "object"
  /\ utilRet.props.games = Num(Unit)

\* A string has been refused.
C15_WitnessThrows ==
  /\ Done("migrateOrderItem")
  /\ TagOf(utilArg) = "string"
  /\ utilRet = Thrown("Invalid order item")

\* ----------------------------------------------------------------- C16
\* The enumeration of jobType (types, line 10); the a of Reimpressao
\* stands for the a with a tilde.
JobTypes == { Str(Novo), Str(<<"R", "e", "i", "m", "p", "r", "e", "s", "s", "a", "o">>), Str(<<"A", "j", "u", "s", "t", "e">>) }

\* C16: the jobType of the item that migrateOrderItem returns is always
\* one of 'Novo', 'Reimpressao', 'Ajuste'; a missing value and a value
\* outside the enumeration both become 'Novo'.
C16_JobTypeInEnumeration ==
  (Done("migrateOrderItem") /\ ~NotAnObject(utilArg)) =>
    /\ utilRet.props.jobType \in JobTypes
    /\ Get(utilArg, "jobType") \notin JobTypes => utilRet.props.jobType = Str(Novo)

\* ----------------------------------------------------------------- C17
\* C17: migrateOrderItem replaces the unit price by 0.0798 only when
\* pricePerCm2 is absent or not numeric; every numeric price, 0 and the
\* negative ones included, is kept.
C17_NumericPriceKept ==
  (Done("migrateOrderItem") /\ ~NotAnObject(utilArg)) =>
    LET price == Get(utilArg, "pricePerCm2")
    IN /\ TagOf(price) = "number" => utilRet.props.pricePerCm2 = price
       /\ (TagOf(price) \in {"undefined", "null", "NaN", "boolean", "object"}
             \/ price = Str(<<"a", "b", "c">>)) =>
            utilRet.props.pricePerCm2 = Num(DEFAULT_RATE)

\* ----------------------------------------------------------------- C18
\* The elements that are objects, in their order.
ObjectsOf(elems) == SelectSeq(elems, LAMBDA e : ~NotAnObject(e))

\* a is the migrated item of the stored element e: every field but a
\* generated id is what migrateOrderItem gives, and a width or height
\* stored as a number other than 0 is kept as it is.
MigratedFrom(a, e) ==
  /\ \E random \in RandomIds : a = migrateOrderItemAny(e, random)
  /\ \A key \in {"width", "height"} :
       (TagOf(Get(e, key)) = "number" /\ Get(e, key) # Num(0)) =>
         a.props[key] = Get(e, key)

MigratedInOrder(migrated, elems) ==
  /\ Len(migrated) = Len(ObjectsOf(elems))
  /\ \A i \in 1..Len(migrated) : MigratedFrom(migrated[i], ObjectsOf(elems)[i])

\* C18: migrating a collection (the stored working set at start-up, the
\* items of a batch in migrateHistoryBatch) returns, in the original order,
\* one migrated item per element that is an object and drops only the
\* elements that are not objects; an element whose stored width or height
\* is outside (0, 500] is kept with those values; a malformed element
\* removes and alters none of the others.
C18_CollectionMigration ==
  /\ (Done("loadItems") /\ TagOf(Get(utilArg, "items")) = "array") =>
       MigratedInOrder(utilRet, Get(utilArg, "items").elems)
  /\ (Done("migrateHistoryBatch") /\ TagOf(Get(utilArg, "items")) = "array") =>
       /\ TagOf(utilRet) = "object"
       /\ DOMAIN utilRet.props = DOMAIN utilArg.props
       /\ \A key \in DOMAIN utilArg.props \ {"items"} : utilRet.props[key] = utilArg.props[key]
       /\ TagOf(utilRet.props.items) = "array"
       /\ MigratedInOrder(utilRet.props.items.elems, Get(utilArg, "items").elems)

\* A collection of an item of 600 cm and a string is loaded: the item is
\* kept with its width, the string is dropped.
C18_Witness ==
  /\ Done("loadItems")
  /\ TagOf(Get(utilArg, "items")) = "array"
  /\ Len(Get(utilArg, "items").elems) = 2
  /\ TagOf(Get(utilArg, "items").elems[1]) = "string"
  /\ Len(utilRet) = 1
  /\ utilRet[1].props.width = Num(600 * Unit)

\* The items of a batch are migrated around a null element.
C18_WitnessBatch ==
  /\ Done("migrateHistoryBatch")
  /\ TagOf(Get(utilArg, "items")) = "array"
  /\ Len(Get(utilArg, "items").elems) = 2
  /\ Get(utilArg, "items").elems[1] = null
  /\ Len(utilRet.props.items.elems) = 1

\* ----------------------------------------------------------------- C19
ExampleName == <<"4", "7", "8", "7", "_", "1", "8", "0", "x", "2", "4", "0", "m", "m", "_", "C", "M", "Y", "K", ".", "p", "d", "f">>

\* The runs of at least four digits of str that have no word character on
\* either side, by the position where they start.
DelimitedRuns(str) ==
  { p \in 1..Len(str) :
      /\ IsDigit(str[p])
      /\ ~IsWordChar(CharAt(str, p - 1))
      /\ \E e \in (p + 3)..Len(str) :
           /\ \A q \in p..e : IsDigit(str[q])
           /\ ~IsWordChar(CharAt(str, e + 1)) }

\* C19: for the file name "4787_180x240mm_CMYK.pdf" extractOS returns
\* "4787", extractDimensions returns 18 x 24 cm and detectColors returns
\* the colors ["CMYK"] with gameCount 4; in general extractOS returns the
\* first run of at least four digits delimited by word boundaries, or the
\* empty string when there is none.
C19_ExampleFileName ==
  /\ (Done("extractOS") /\ utilArg = ExampleName) => utilRet = <<"4", "7", "8", "7">>
  /\ (Done("extractDimensions") /\ utilArg = ExampleName) =>
       utilRet = [width |-> 1800, height |-> 2400]
  /\ (Done("detectColors") /\ utilArg = ExampleName) =>
       utilRet = [colors |-> <<"CMYK">>, gameCount |-> 4]
  /\ Done("extractOS") =>
       IF DelimitedRuns(utilArg) = {} THEN utilRet = <<>>
       ELSE LET p == CHOOSE q \in DelimitedRuns(utilArg) :
                       \A r \in DelimitedRuns(utilArg) : q <= r
            IN /\ Len(utilRet) >= 4
               /\ utilRet = SubSeq(utilArg, p, p + Len(utilRet) - 1)
               /\ ~IsDigit(CharAt(utilArg, p + Len(utilRet)))

\* ----------------------------------------------------------------- C20
\* C20: validateGames is total: for every input (numbers, numeric strings,
\* strings that are not numeric such as "abc", -5, 0, 3.7, null, undefined)
\* it returns an integer that is at least 1, and it returns 1 whenever the
\* integer parsing fails or gives a value that is not positive.
C20_GamesAtLeastOne ==
  Done("validateGames") =>
    /\ TagOf(utilRet) = "number"
    /\ utilRet.n % Unit = 0
    /\ utilRet.n >= Unit
    /\ utilArg \in {Str(<<"a", "b", "c">>), Num(0 - 5 * Unit), Num(0), null, undefined,
                    NaN, Str(<<>>), Str(<<"-", "3">>), Bool(TRUE), Obj(<<>>)} =>
         utilRet = Num(Unit)
    /\ utilArg = Num(37000) => utilRet = Num(3 * Unit)
    /\ utilArg = Str(<<"7">>) => utilRet = Num(7 * Unit)
    /\ utilArg = Str(<<" ", "1", "2", "a", "b", "c">>) => utilRet = Num(12 * Unit)

\* "abc" and -5 each gave 1.
C20_Witness ==
  /\ Done("validateGames")
  /\ utilArg = Num(0 - 5 * Unit)
  /\ utilRet = Num(Unit)

C20_WitnessFraction ==
  /\ Done("validateGames")
  /\ utilArg = Num(37000)
  /\ utilRet = Num(3 * Unit)

\* ----------------------------------------------------------------- C21
\* The text under the key that is read, before the call.
StoredBefore == getItem(utilArg.storage, utilArg.key)

\* The stored text cannot be parsed.
Corrupt(saved) == saved # null /\ JSONparse(saved.s) = Thrown("SyntaxError")

\* C21: loadFromStorage never throws; on a storage that can be read, when
\* the text stored under the key cannot be parsed it removes that key (and
\* no other) and returns the default; when the key is absent it returns
\* the default and leaves the storage unchanged; when the stored text
\* parses it returns the parsed value and leaves the storage unchanged.
C21_LoadRecoversFromCorruptData ==
  Done("loadFromStorage") =>
    /\ utilRet # Thrown("SyntaxError")
    /\ (~utilArg.denied /\ Corrupt(StoredBefore)) =>
          /\ localStorage = removeItem(utilArg.storage, utilArg.key)
          /\ utilRet = utilArg.defaultValue
    /\ (~utilArg.denied /\ StoredBefore = null) =>
          /\ localStorage = utilArg.storage
          /\ utilRet = utilArg.defaultValue
    /\ (~utilArg.denied /\ StoredBefore # null /\ ~Corrupt(StoredBefore)) =>
          /\ localStorage = utilArg.storage
          /\ utilRet = JSONparse(StoredBefore.s)

\* ------------------------------------- specification of the App component
\* The state of the component between two events.  An item of the working
\* set is known by its id; the ids that Math.random gives are taken to be
\* fresh, and are counted by nextId.  lastAlert is the text of the alert that
\* the last handler showed, "" when it showed none.
MaxWorkItems == 2
MaxBatches == 2
MaxCalls == 2
MaxIds == 4

StockValues == {10000, 9000}

EnabledSettings ==
  [enabled |-> TRUE, targetEmail |-> <<"a", "@", "b", ".", "c">>,
   serviceId |-> "service", templateId |-> "template", publicKey |-> "key"]

\* n items with the ids from first on, as handleAddItem and the import make
\* them; of the fields of an item the model keeps its id and its games.
ItemsWithIds(first, n) == [i \in 1..n |-> [id |-> first + i - 1, games |-> 1]]

\* ------------------------------------------------ what the storage holds
\* An item and a batch as the values that are written and read back.
ItemToAny(item) ==
  Obj([id |-> Str(NatToString(item.id)), games |-> Num(item.games * Unit)])

AnyToItem(x) ==
  [id |-> DecimalValue(Get(x, "id").s), games |-> Get(x, "games").n \div Unit]

ItemsToAny(its) == Arr([i \in 1..Len(its) |-> ItemToAny(its[i])])

BatchToAny(b) ==
  Obj([id |-> Str(NatToString(b.id)), items |-> ItemsToAny(b.items),
       stockSnapshot |-> Num(b.stockSnapshot * Unit)])

AnyToBatch(x) ==
  [id |-> DecimalValue(Get(x, "id").s),
   items |-> [i \in 1..Len(Get(x, "items").elems) |-> AnyToItem(Get(x, "items").elems[i])],
   stockSnapshot |-> Get(x, "stockSnapshot").n \div Unit]

HistoryToAny(h) == Arr([i \in 1..Len(h) |-> BatchToAny(h[i])])

\* App.tsx 241-245: dataToSave (the fixed cost stays 0)
DataToSave(currentItems, currentStock) ==
  Obj([items |-> ItemsToAny(currentItems), totalStock |-> Num(currentStock * Unit),
       fixedCost |-> Num(0)])

\* The draws of Math.random for the elements of a stored array; an element
\* that has an id keeps it.
NoRandoms(elems) == [i \in 1..Len(elems) |-> <<"7", "d", "0", "f", "z">>]

\* App.tsx 121-136: the working set of the first render
LoadedItems(storage) ==
  The({ The({ [i \in 1..Len(loaded) |-> AnyToItem(loaded[i])]
              : loaded \in {LoadItems(saved, NoRandoms(ElementsOf(saved)))} })
        : saved \in {loadFromStorage(storage, FALSE, STORAGE_KEY, null).ret} })

\* App.tsx 139-142: the stock of the first render
LoadedStock(storage) ==
  The({ LET stock == IF TagOf(saved) \in {"undefined", "null"} THEN undefined
                     ELSE Get(saved, "totalStock")
        IN IF typeof(stock) = "number" THEN stock.n \div Unit ELSE 10000
        : saved \in {loadFromStorage(storage, FALSE, STORAGE_KEY, null).ret} })

RECURSIVE MigrateBatches(_)
\* App.tsx 153-162: saved.map(migrate with try/catch -> null).filter
MigrateBatches(elems) ==
  IF elems = <<>> THEN <<>>
  ELSE The({ (IF "threw" \in DOMAIN migrated THEN <<>> ELSE <<AnyToBatch(migrated)>>)
               \o MigrateBatches(Tail(elems))
             : migrated \in {migrateHistoryBatchAny(Head(elems),
                                                    NoRandoms(ElementsOf(Head(elems))))} })

\* App.tsx 151-163: the history of the first render (the stored value is
\* an array: saved.map is called on it)
LoadedHistory(storage) ==
  The({ MigrateBatches(saved.elems)
        : saved \in {loadFromStorage(storage, FALSE, HISTORY_KEY, Arr(<<>>)).ret} })

\* The storage after the loads of the first render, which remove a key whose
\* text cannot be parsed, and after the effect of App.tsx 210-216, which
\* saves the history when the component is mounted.
StorageAfterMount(storage) ==
  LET afterItems   == loadFromStorage(storage, FALSE, STORAGE_KEY, null).storage
      afterHistory == loadFromStorage(afterItems, FALSE, HISTORY_KEY, Arr(<<>>)).storage
  IN saveToStorage(afterHistory, HISTORY_KEY, HistoryToAny(LoadedHistory(storage)))

\* The storage that a session left behind with n items and a stock.
SavedStorage(n, stock) ==
  saveToStorage(<<>>, STORAGE_KEY, DataToSave(ItemsWithIds(1, n), stock))

\* The highest id of the items and of the batches.
RECURSIVE MaxOf(_)
MaxOf(ids) == IF ids = {} THEN 0
              ELSE LET id == CHOOSE x \in ids : TRUE
                       m  == MaxOf(ids \ {id})
                   IN IF id > m THEN id ELSE m

IdsOf(its) == {its[i].id : i \in 1..Len(its)}

IdsInUse(its, h) ==
  IdsOf(its) \cup IdsOf(h) \cup UNION {IdsOf(h[i].items) : i \in 1..Len(h)}

\* App.tsx 107-163 and 210-216: the state after the first render on a
\* storage, and after its effects
Mounted(storage) ==
  /\ items = LoadedItems(storage)
  /\ totalStock = LoadedStock(storage)
  /\ history = LoadedHistory(storage)
  /\ localStorage = StorageAfterMount(storage)
  /\ nextId = MaxOf(IdsInUse(items, history)) + 1
  /\ activeTab = "production"
  /\ isImporting = FALSE
  /\ emailSettings \in {DEFAULT_EMAIL_SETTINGS, EnabledSettings}
  /\ isEmailModalOpen = FALSE
  /\ handleImportPDF = [isImporting |-> FALSE, emailSettings |-> emailSettings]
  /\ calls = <<>>
  /\ lastAlert = ""

\* The component is mounted on the storage of an earlier session that
\* saved an empty working set.  (The storage of the model holds the keys of
\* the working set and of the history; the key of the email settings is
\* left out.)
AppInit ==
  /\ SplitIdle
  /\ SendIdle
  /\ ImportIdle
  /\ UtilIdle
  /\ WorkerIdle
  /\ Mounted(SavedStorage(0, 10000))

Idle == UNCHANGED <<splitVars, sendVars, importVars, utilVars, workerVars>>

\* App.tsx 210-218: the effect that saves the history after a render in
\* which the history changed
HistoryEffect ==
  localStorage' = IF history' = history THEN localStorage
                  ELSE saveToStorage(localStorage, HISTORY_KEY, HistoryToAny(history'))

\* App.tsx 503-519: handleAddItem
HandleAddItem ==
  /\ activeTab = "production"
  /\ Len(items) < MaxWorkItems /\ nextId <= MaxIds
  /\ items' = items \o ItemsWithIds(nextId, 1)
  /\ nextId' = nextId + 1
  /\ lastAlert' = ""
  /\ UNCHANGED <<totalStock, history, activeTab, isImporting, emailSettings,
                 isEmailModalOpen, handleImportPDF, calls>>
  /\ Idle
  /\ HistoryEffect

\* App.tsx 521-524: handleDeleteItem
HandleDeleteItem ==
  /\ activeTab = "production"
  /\ \E i \in 1..Len(items) :
       items' = SelectSeq(items, LAMBDA item : item.id # items[i].id)
  /\ lastAlert' = ""
  /\ UNCHANGED <<totalStock, history, activeTab, isImporting, emailSettings,
                 isEmailModalOpen, handleImportPDF, calls, nextId>>
  /\ Idle
  /\ HistoryEffect

\* App.tsx 526-530: handleUpdateItem(id, 'games', value); the id may be
\* one that no item has
GameValues == {1, 2}

HandleUpdateItem ==
  /\ activeTab = "production"
  /\ \E id \in 1..MaxIds, value \in GameValues :
       items' = [i \in 1..Len(items) |->
                   IF items[i].id = id THEN [items[i] EXCEPT !.games = value]
                   ELSE items[i]]
  /\ lastAlert' = ""
  /\ UNCHANGED <<totalStock, history, activeTab, isImporting, emailSettings,
                 isEmailModalOpen, handleImportPDF, calls, nextId>>
  /\ Idle
  /\ HistoryEffect

\* App.tsx 670: onStockChange={setTotalStock}
SetTotalStock ==
  /\ activeTab = "production"
  /\ \E stock \in StockValues \ {totalStock} : totalStock' = stock
  /\ lastAlert' = ""
  /\ UNCHANGED <<items, history, activeTab, isImporting, emailSettings,
                 isEmailModalOpen, handleImportPDF, calls, nextId>>
  /\ Idle
  /\ HistoryEffect

\* App.tsx 282-292: handleTabChange (the history view reports no unsaved
\* change)
HandleTabChange ==
  /\ \E tab \in {"production", "history"} \ {activeTab} : activeTab' = tab
  /\ lastAlert' = ""
  /\ UNCHANGED <<items, totalStock, history, isImporting, emailSettings,
                 isEmailModalOpen, handleImportPDF, calls, nextId>>
  /\ Idle
  /\ HistoryEffect

\* App.tsx 309-316: newBatch (timestamp, month and year are the time of the
\* call and are left out)
NewHistoryBatch_DropLast(id, its, stock) ==
  [id |-> id, items |-> SubSeq(its, 1, Len(its) - 1), stockSnapshot |-> stock]

NewHistoryBatch(id, its, stock) ==
  [id |-> id, items |-> its, stockSnapshot |-> stock]

\* App.tsx 294-328 and 578 (the button is disabled while importing):
\* handleArchive, with the answer to window.confirm
HandleArchive ==
  /\ activeTab = "production"
  /\ ~isImporting
  /\ IF Len(items) = 0
     THEN /\ lastAlert' = "Nao ha itens para arquivar."
          /\ UNCHANGED <<items, history, activeTab, nextId>>
     ELSE \E confirmed \in BOOLEAN :
            IF ~confirmed
            THEN /\ lastAlert' = ""
                 /\ UNCHANGED <<items, history, activeTab, nextId>>
            ELSE /\ Len(history) < MaxBatches /\ nextId <= MaxIds
                 /\ history' = <<NewHistoryBatch(nextId, items, totalStock)>> \o history
                 /\ items' = <<>>
                 /\ nextId' = nextId + 1
                 /\ lastAlert' = "Producao arquivada com sucesso!"
                 /\ activeTab' = "history"
  /\ UNCHANGED <<totalStock, isImporting, emailSettings, isEmailModalOpen,
                 handleImportPDF, calls>>
  /\ Idle
  /\ HistoryEffect

\* App.tsx 342-347: the items of the batches, each with a new id
RestoredItems(batchesToRestore, first) ==
  LET copied == Flatten([i \in 1..Len(batchesToRestore) |-> batchesToRestore[i].items])
  IN [i \in 1..Len(copied) |-> [copied[i] EXCEPT !.id = first + i - 1]]

\* App.tsx 330-357: handleRestoreBatches, with the answer to window.confirm
HandleRestoreBatches ==
  /\ activeTab = "history"
  /\ \E ids \in SUBSET {history[i].id : i \in 1..Len(history)} :
       LET batchesToRestore == SelectSeq(history, LAMBDA b : b.id \in ids)
           count == SumSeq([i \in 1..Len(batchesToRestore) |->
                              Len(batchesToRestore[i].items)])
       IN /\ Len(batchesToRestore) # 0
          /\ \E confirmed \in BOOLEAN :
               IF ~confirmed
               THEN /\ lastAlert' = ""
                    /\ UNCHANGED <<items, activeTab, nextId>>
               ELSE /\ Len(items) + count <= MaxWorkItems
                    /\ nextId + count - 1 <= MaxIds
                    /\ items' = items \o RestoredItems(batchesToRestore, nextId)
                    /\ nextId' = nextId + count
                    /\ lastAlert' = "Itens restaurados para a aba de Producao."
                    /\ activeTab' = "production"
  /\ UNCHANGED <<totalStock, history, isImporting, emailSettings,
                 isEmailModalOpen, handleImportPDF, calls>>
  /\ Idle
  /\ HistoryEffect

\* App.tsx 366: prev.filter((h) => !ids.includes(h.id))
RemoveBatches(prev, ids) == SelectSeq(prev, LAMBDA h : h.id \notin ids)

\* App.tsx 359-373: handleDeleteBatches(ids), with the answer to
\* window.confirm
HandleDeleteBatchesOf(ids, confirmed) ==
  /\ activeTab = "history"
  /\ history' = IF confirmed THEN RemoveBatches(history, ids) ELSE history
  /\ lastAlert' = ""
  /\ UNCHANGED <<items, totalStock, activeTab, isImporting, emailSettings,
                 isEmailModalOpen, handleImportPDF, calls, nextId>>
  /\ Idle
  /\ HistoryEffect

\* The ids that the history view selects: ids of batches of the history
\* (0 is the id of no batch).
SelectedIds == (SUBSET ({history[i].id : i \in 1..Len(history)} \cup {0})) \ {{}}

HandleDeleteBatches ==
  \E ids \in SelectedIds, confirmed \in BOOLEAN : HandleDeleteBatchesOf(ids, confirmed)

\* The batches that the history view can hand to handleSaveBatch: a batch
\* of the history with another stock snapshot or without its last item,
\* and a batch whose id no batch of the history has (0).
UpdatedBatches ==
  { [id |-> id, items |-> its, stockSnapshot |-> stock] :
      id \in {history[i].id : i \in 1..Len(history)} \cup {0},
      its \in {history[i].items : i \in 1..Len(history)}
              \cup {SubSeq(history[i].items, 1, Len(history[i].items) - 1) :
                      i \in 1..Len(history)},
      stock \in StockValues }

ReplaceBatch_First(prev, updatedBatch) ==
  [i \in 1..Len(prev) |-> IF i = 1 THEN updatedBatch ELSE prev[i]]

\* App.tsx 377-379: prev.map((b) => (b.id === updatedBatch.id ? updatedBatch : b))
ReplaceBatch(prev, updatedBatch) ==
  [i \in 1..Len(prev) |-> IF prev[i].id = updatedBatch.id THEN updatedBatch ELSE prev[i]]

\* App.tsx 375-385: handleSaveBatch(updatedBatch)
HandleSaveBatchOf(updatedBatch) ==
  /\ activeTab = "history"
  /\ history' = ReplaceBatch(history, updatedBatch)
  /\ lastAlert' = ""
  /\ UNCHANGED <<items, totalStock, activeTab, isImporting, emailSettings,
                 isEmailModalOpen, handleImportPDF, calls, nextId>>
  /\ Idle
  /\ HistoryEffect

HandleSaveBatch == \E updatedBatch \in UpdatedBatches : HandleSaveBatchOf(updatedBatch)

\* App.tsx 564-567: the settings button, disabled while importing
OpenEmailModal ==
  /\ ~isImporting
  /\ ~isEmailModalOpen
  /\ isEmailModalOpen' = TRUE
  /\ lastAlert' = ""
  /\ UNCHANGED <<items, totalStock, history, activeTab, isImporting,
                 emailSettings, handleImportPDF, calls, nextId>>
  /\ Idle
  /\ HistoryEffect

\* App.tsx 692: onClose
CloseEmailModal ==
  /\ isEmailModalOpen
  /\ isEmailModalOpen' = FALSE
  /\ lastAlert' = ""
  /\ UNCHANGED <<items, totalStock, history, activeTab, isImporting,
                 emailSettings, handleImportPDF, calls, nextId>>
  /\ Idle
  /\ HistoryEffect

\* App.tsx 270-280 and 387-449: handleSaveEmailSettings from the modal; the
\* render that follows gives useCallback a new emailSettings, its only
\* dependency, so handleImportPDF becomes the function of that render, which
\* closes over the isImporting of that render.
HandleSaveEmailSettings ==
  /\ isEmailModalOpen
  /\ \E newSettings \in {DEFAULT_EMAIL_SETTINGS, EnabledSettings} :
       /\ emailSettings' = newSettings
       /\ handleImportPDF' = [isImporting |-> isImporting, emailSettings |-> newSettings]
  /\ lastAlert' = "Configuracoes de email salvas!"
  /\ UNCHANGED <<items, totalStock, history, activeTab, isImporting,
                 isEmailModalOpen, calls, nextId>>
  /\ Idle
  /\ HistoryEffect

\* App.tsx 389-392: the guard of handleImportPDF, on the isImporting that
\* the function closes over
ImportRefused(handler) == handler.isImporting

\* App.tsx 387-401: handleImportPDF is called, up to its first await.  The
\* renders that follow setIsImporting(true) keep the memoized function.
HandleImportPDF ==
  /\ IF ImportRefused(handleImportPDF)
     THEN /\ lastAlert' = "Importacao ja em andamento. Aguarde..."
          /\ UNCHANGED <<isImporting, calls>>
     ELSE /\ Len(calls) < MaxCalls
          /\ isImporting' = TRUE
          /\ calls' = Append(calls, [pc |-> "importPdfsToItems",
                                     emailSettings |-> handleImportPDF.emailSettings])
          /\ lastAlert' = ""
  /\ UNCHANGED <<items, totalStock, history, activeTab, emailSettings,
                 isEmailModalOpen, handleImportPDF, nextId>>
  /\ Idle
  /\ HistoryEffect

\* The calls without the i-th.
Without(s, i) == SubSeq(s, 1, i - 1) \o SubSeq(s, i + 1, Len(s))

\* The handler with the test of result.items.length left out of line 425.
AfterImport_AnyResult(created, emailCfg) ==
  IF emailCfg.enabled THEN "sendBatchNotification" ELSE "finally"

\* App.tsx 425: where the handler goes after the alert of the result
AfterImport(created, emailCfg) ==
  IF created > 0 /\ emailCfg.enabled THEN "sendBatchNotification" ELSE "finally"

\* App.tsx 398-424 and 445-447: importPdfsToItems of a call resolves with
\* its items; the handler goes on to the email, or to its finally
ImportSettles ==
  \E i \in 1..Len(calls) :
    /\ calls[i].pc = "importPdfsToItems"
    /\ \E created \in 0..1 :
         /\ Len(items) + created <= MaxWorkItems
         /\ nextId + created - 1 <= MaxIds
         /\ items' = items \o ItemsWithIds(nextId, created)
         /\ nextId' = nextId + created
         /\ IF AfterImport(created, calls[i].emailSettings) = "sendBatchNotification"
            THEN /\ calls' = [calls EXCEPT ![i].pc = "sendBatchNotification"]
                 /\ isImporting' = isImporting
            ELSE /\ calls' = Without(calls, i)
                 /\ isImporting' = FALSE
    /\ lastAlert' = "Importacao concluida!"
    /\ UNCHANGED <<totalStock, history, activeTab, emailSettings,
                   isEmailModalOpen, handleImportPDF>>
    /\ Idle
    /\ HistoryEffect

\* App.tsx 425-447: sendBatchNotification of a call settles; finally
EmailSettles ==
  \E i \in 1..Len(calls) :
    /\ calls[i].pc = "sendBatchNotification"
    /\ calls' = Without(calls, i)
    /\ isImporting' = FALSE
    /\ lastAlert' = ""
    /\ UNCHANGED <<items, totalStock, history, activeTab, emailSettings,
                   isEmailModalOpen, handleImportPDF, nextId>>
    /\ Idle
    /\ HistoryEffect

AppNext ==
  \/ HandleAddItem
  \/ HandleDeleteItem
  \/ HandleUpdateItem
  \/ SetTotalStock
  \/ HandleTabChange
  \/ HandleArchive
  \/ HandleRestoreBatches
  \/ HandleDeleteBatches
  \/ HandleSaveBatch
  \/ OpenEmailModal
  \/ CloseEmailModal
  \/ HandleSaveEmailSettings
  \/ HandleImportPDF
  \/ ImportSettles
  \/ EmailSettles

AppSpec == AppInit /\ [][AppNext]_vars

\* ------------------------------------ specification of a started import
\* App.tsx 399 and 441-446: importPdfsToItems of a call rejects; the catch
\* of the handler shows its alert and the finally clears the flag.
\* (importPdfsToItems catches what a file or a page throws, utils 392-481,
\* so this is the handler's answer to an error outside those blocks.)
ImportThrows ==
  \E i \in 1..Len(calls) :
    /\ calls[i].pc = "importPdfsToItems"
    /\ calls' = Without(calls, i)
    /\ isImporting' = FALSE
    /\ lastAlert' = "Erro durante importacao de PDF."
    /\ UNCHANGED <<items, totalStock, history, activeTab, emailSettings,
                   isEmailModalOpen, handleImportPDF, nextId>>
    /\ Idle
    /\ HistoryEffect

ImportLiveNext ==
  \/ HandleDeleteItem
  \/ OpenEmailModal
  \/ CloseEmailModal
  \/ HandleSaveEmailSettings
  \/ HandleImportPDF
  \/ ImportSettles
  \/ ImportThrows
  \/ EmailSettles

\* The promise of importPdfsToItems and the promise of
\* sendBatchNotification settle, and the event loop then runs the rest of
\* the handler.
ImportLiveSpec ==
  /\ AppInit
  /\ [][ImportLiveNext]_vars
  /\ WF_vars(ImportSettles \/ ImportThrows)
  /\ WF_vars(EmailSettles)

\* ------------------------------- specification of the persisted state
\* App.tsx 234-268 and 585: saveData() from the button of the production
\* tab, disabled while importing
SaveData ==
  /\ activeTab = "production"
  /\ ~isImporting
  /\ localStorage' = saveToStorage(localStorage, STORAGE_KEY, DataToSave(items, totalStock))
  /\ lastAlert' = "Dados salvos com sucesso!"
  /\ UNCHANGED <<items, totalStock, history, activeTab, isImporting, emailSettings,
                 isEmailModalOpen, handleImportPDF, calls, nextId>>
  /\ Idle

\* App.tsx 199-208: the interval of two minutes saves what the refs hold,
\* which is the working set and the stock of the last render
AutoSave ==
  /\ localStorage' = saveToStorage(localStorage, STORAGE_KEY, DataToSave(items, totalStock))
  /\ lastAlert' = ""
  /\ UNCHANGED <<items, totalStock, history, activeTab, isImporting, emailSettings,
                 isEmailModalOpen, handleImportPDF, calls, nextId>>
  /\ Idle

\* App.tsx 107-163 and 210-216: the page is loaded again and the component
\* is mounted on what the storage holds; the calls in flight end with the
\* page, and the email settings are those that were saved last
Reload ==
  /\ items' = LoadedItems(localStorage)
  /\ totalStock' = LoadedStock(localStorage)
  /\ history' = LoadedHistory(localStorage)
  /\ localStorage' = StorageAfterMount(localStorage)
  /\ activeTab' = "production"
  /\ isImporting' = FALSE
  /\ isEmailModalOpen' = FALSE
  /\ handleImportPDF' = [isImporting |-> FALSE, emailSettings |-> emailSettings]
  /\ calls' = <<>>
  /\ lastAlert' = ""
  /\ UNCHANGED <<emailSettings, nextId>>
  /\ Idle

\* What an earlier session, or none, left in the storage: nothing, a text
\* that cannot be parsed, or a saved working set.
SessionStorages ==
  { <<>>, [k \in {STORAGE_KEY} |-> <<"{">>] }
    \cup { SavedStorage(n, 10000) : n \in 0..MaxWorkItems }

PersistInit ==
  /\ SplitIdle
  /\ SendIdle
  /\ ImportIdle
  /\ UtilIdle
  /\ WorkerIdle
  /\ \E storage \in SessionStorages : Mounted(storage)

PersistNext ==
  \/ HandleAddItem
  \/ HandleDeleteItem
  \/ HandleTabChange
  \/ HandleArchive
  \/ HandleRestoreBatches
  \/ HandleDeleteBatches
  \/ SaveData
  \/ AutoSave
  \/ Reload

PersistSpec == PersistInit /\ [][PersistNext]_vars

\* ----------------------------------------------------------------- C24
\* The ids of the items that the text under STORAGE_KEY holds.
StoredItemIds ==
  LET saved  == IF STORAGE_KEY \in DOMAIN localStorage
                THEN JSONparse(localStorage[STORAGE_KEY]) ELSE null
      stored == IF saved = Thrown("SyntaxError") THEN undefined ELSE Get(saved, "items")
  IN IF TagOf(stored) = "array"
     THEN {AnyToItem(stored.elems[i]).id : i \in 1..Len(stored.elems)}
     ELSE {}

\* The ids of the items of the batches of a history.
ArchivedIds(h) == UNION {IdsOf(h[i].items) : i \in 1..Len(h)}

\* C24: the persisted state stays consistent with an archive: the stored
\* working set and the stored history never both hold an archived item,
\* and the working set of the component, after a reload as at any other
\* moment, holds no item that a batch of the history holds.
C24_StoredStateConsistent ==
  /\ StoredItemIds \cap ArchivedIds(LoadedHistory(localStorage)) = {}
  /\ IdsOf(items) \cap ArchivedIds(history) = {}

\* ------------------------------------- specification of the PDF worker
\* utils 167-234 and App.tsx 183-197.  blobUrl is the variable of the
\* module, workerSrc is pdfjs.GlobalWorkerOptions.workerSrc (null while it
\* is not set), objectUrls are the URLs that URL.createObjectURL has given
\* and revoked those that URL.revokeObjectURL has released.  workerCalls
\* are the calls of initPdfWorker that wait for fetch or for
\* response.text(), and workerLog keeps what the calls returned.
MaxMounts == 3

\* utils 169-172
WORKER_URLS == <<"unpkg", "jsdelivr">>

BlobSrc(id) == [blob |-> id]

CdnSrc == [url |-> WORKER_URLS[1]]

\* What a call of initPdfWorker returned, and whether the worker source
\* was then a blob URL that had been revoked.
WorkerReturn(ret, already, src, released) ==
  [ret |-> ret, alreadyInitialized |-> already,
   revokedSrc |-> \E id \in released : src = BlobSrc(id)]

WorkerInit ==
  /\ SplitIdle
  /\ SendIdle
  /\ ImportIdle
  /\ UtilIdle
  /\ AppIdle
  /\ StorageIdle
  /\ WorkerIdle

WorkerFrame == UNCHANGED <<splitVars, sendVars, importVars, utilVars, appVars, storageVars>>

\* App.tsx 183-191 and utils 179-188: the component is mounted and its
\* effect calls initPdfWorker, which returns true at once when a worker
\* source is set and otherwise goes to the fetch of the first URL
MountApp ==
  /\ ~mounted
  /\ Len(workerLog) + Len(workerCalls) < MaxMounts
  /\ mounted' = TRUE
  /\ IF workerSrc # null
     THEN /\ workerLog' = Append(workerLog, WorkerReturn(TRUE, TRUE, workerSrc, revoked))
          /\ UNCHANGED workerCalls
     ELSE /\ workerCalls' = Append(workerCalls, [pc |-> "fetch", url |-> 1])
          /\ UNCHANGED workerLog
  /\ UNCHANGED <<blobUrl, workerSrc, objectUrls, revoked>>
  /\ WorkerFrame

\* utils 191, 201, 213 and 217-222: the call goes on to the next URL, or sets
\* the first URL as the worker source after the last one and returns false
NextWorkerUrl(i) ==
  IF workerCalls[i].url < Len(WORKER_URLS)
  THEN /\ workerCalls' = [workerCalls EXCEPT ![i] = [pc |-> "fetch", url |-> @.url + 1]]
       /\ UNCHANGED <<workerSrc, workerLog>>
  ELSE /\ workerCalls' = Without(workerCalls, i)
       /\ workerSrc' = CdnSrc
       /\ workerLog' = Append(workerLog, WorkerReturn(FALSE, FALSE, CdnSrc, revoked))

\* utils 196-202 and 211-214: fetch settles: the response is ok, or it is not, or
\* fetch throws (a network error or the abort after five seconds)
FetchSettles ==
  \E i \in 1..Len(workerCalls) :
    /\ workerCalls[i].pc = "fetch"
    /\ \/ /\ workerCalls' = [workerCalls EXCEPT ![i].pc = "text"]
          /\ UNCHANGED <<workerSrc, workerLog>>
       \/ NextWorkerUrl(i)
    /\ UNCHANGED <<blobUrl, objectUrls, revoked, mounted>>
    /\ WorkerFrame

\* utils 204-210: response.text() resolves: the blob URL is created and
\* set, and the call returns true
TextResolves ==
  \E i \in 1..Len(workerCalls) :
    /\ workerCalls[i].pc = "text"
    /\ LET id == Cardinality(objectUrls) + 1
       IN /\ objectUrls' = objectUrls \cup {id}
          /\ blobUrl' = BlobSrc(id)
          /\ workerSrc' = BlobSrc(id)
          /\ workerLog' = Append(workerLog, WorkerReturn(TRUE, FALSE, BlobSrc(id), revoked))
    /\ workerCalls' = Without(workerCalls, i)
    /\ UNCHANGED <<revoked, mounted>>
    /\ WorkerFrame

\* utils 204 and 211-214: response.text() rejects
TextRejects ==
  \E i \in 1..Len(workerCalls) :
    /\ workerCalls[i].pc = "text"
    /\ NextWorkerUrl(i)
    /\ UNCHANGED <<blobUrl, objectUrls, revoked, mounted>>
    /\ WorkerFrame

\* App.tsx 193-196 and utils 228-234: the component is unmounted and the
\* cleanup of its effect calls cleanupPdfWorker
UnmountApp ==
  /\ mounted
  /\ mounted' = FALSE
  /\ IF blobUrl # null
     THEN /\ revoked' = revoked \cup {blobUrl.blob}
          /\ blobUrl' = null
     ELSE UNCHANGED <<revoked, blobUrl>>
  /\ UNCHANGED <<workerSrc, objectUrls, workerCalls, workerLog>>
  /\ WorkerFrame

WorkerNext ==
  \/ MountApp
  \/ FetchSettles
  \/ TextResolves
  \/ TextRejects
  \/ UnmountApp

WorkerSpec == WorkerInit /\ [][WorkerNext]_vars

\* ----------------------------------------------------------------- C25
\* C25: once cleanupPdfWorker has run at unmount and no call of
\* initPdfWorker is in flight any more, every blob URL that initPdfWorker
\* created is revoked; and no call of initPdfWorker reports the worker as
\* already initialized while the worker source is a revoked blob URL.
C25_BlobUrlReleased ==
  /\ (~mounted /\ workerCalls = <<>>) => objectUrls \subseteq revoked
  /\ \A k \in 1..Len(workerLog) :
       workerLog[k].alreadyInitialized => ~workerLog[k].revokedSrc

\* ----------------------------------------------------------------- C26
\* The calls of handleImportPDF that wait for sendBatchNotification.
Emailing(cs) == {i \in 1..Len(cs) : cs[i].pc = "sendBatchNotification"}

\* A call goes on to sendBatchNotification only in the step that appends
\* the items it created to the working set.
AppendBeforeEmail ==
  Cardinality(Emailing(calls')) > Cardinality(Emailing(calls))
    => /\ Len(items') > Len(items)
       /\ SubSeq(items', 1, Len(items)) = items

\* The step in which sendBatchNotification of a call settles, with success,
\* with errors or by throwing, leaves the working set as it is.
EmailKeepsItems ==
  Cardinality(Emailing(calls')) < Cardinality(Emailing(calls)) => items' = items

\* The step in which a call of handleImportPDF ends, through its finally,
\* leaves the flag cleared.
FinallyClearsFlag == Len(calls') < Len(calls) => ~isImporting'

\* C26: a started import eventually clears the flag: isImporting set to
\* true leads to isImporting false, whatever importPdfsToItems and
\* sendBatchNotification settle with, the step that ends a call leaves the
\* flag false, and the flag is false whenever no call is in flight; the items of an import are appended to the working
\* set before its email is sent, and the settling of the email, failed or
\* not, does not change the working set.
C26_ImportClearsFlag ==
  /\ isImporting ~> ~isImporting
  /\ [](calls = <<>> => ~isImporting)
  /\ [][FinallyClearsFlag /\ AppendBeforeEmail /\ EmailKeepsItems]_vars

\* An import that created an item is waiting for its email, the item is
\* in the working set and the flag is set.
C26_Witness ==
  /\ isImporting
  /\ \E i \in 1..Len(calls) : calls[i].pc = "sendBatchNotification"
  /\ Len(items) > 0

\* The import rejected: the alert of the catch was shown and the flag is
\* cleared.
C26_WitnessThrows ==
  /\ lastAlert = "Erro durante importacao de PDF."
  /\ ~isImporting
  /\ calls = <<>>

\* ----------------------------------------------------------------- C13
\* C13: an archive of N current items with stock S, once confirmed, leaves
\* the working set empty and the history extended by exactly one new batch,
\* whose items are exactly those N items in their order and whose
\* stockSnapshot is S; every batch that was there before is unchanged.  The
\* archive is all or nothing: no step moves only a part of the working set
\* into the history, and only a confirmed archive adds a batch.
C13_ArchiveAllOrNothing ==
  [][ /\ lastAlert' = "Producao arquivada com sucesso!" =>
           /\ Len(items) > 0
           /\ items' = <<>>
           /\ Len(history') = Len(history) + 1
           /\ history'[1].items = items
           /\ history'[1].stockSnapshot = totalStock
           /\ Tail(history') = history
      /\ Len(history') > Len(history) =>
           /\ lastAlert' = "Producao arquivada com sucesso!"
           /\ items' = <<>>
    ]_vars

\* The working set was archived with the stock of that moment, in front
\* of an earlier batch.
C13_Witness ==
  /\ lastAlert = "Producao arquivada com sucesso!"
  /\ items = <<>>
  /\ Len(history) = 2
  /\ Len(history[1].items) = 1
  /\ history[1].stockSnapshot = 9000
  /\ history[2].stockSnapshot = 10000
  /\ totalStock = 9000

\* Two items were archived in their order.
C13_WitnessTwoItems ==
  /\ lastAlert = "Producao arquivada com sucesso!"
  /\ items = <<>>
  /\ Len(history) = 1
  /\ history[1].items = ItemsWithIds(1, 2)

\* ----------------------------------------------------------------- C23
\* The ids of the batches, in their order.
BatchIds(h) == [i \in 1..Len(h) |-> h[i].id]

\* What handleSaveBatch(updatedBatch) makes of the history: the batches
\* keep their places, the batch with the id of updatedBatch is updatedBatch
\* and every other batch is as it was; nothing changes when no batch has
\* that id.
SaveReplacesNamed ==
  \A updatedBatch \in UpdatedBatches :
    LET saved == ReplaceBatch(history, updatedBatch)
    IN /\ Len(saved) = Len(history)
       /\ \A i \in 1..Len(history) :
            /\ history[i].id # updatedBatch.id => saved[i] = history[i]
            /\ history[i].id = updatedBatch.id => saved[i] = updatedBatch
       /\ (\A i \in 1..Len(history) : history[i].id # updatedBatch.id) =>
            saved = history

\* What a confirmed handleDeleteBatches(ids) makes of the history: the
\* batches whose ids are not listed, as they were and in their order.
DeleteRemovesListed ==
  \A ids \in SelectedIds :
    LET left == RemoveBatches(history, ids)
        kept == {i \in 1..Len(history) : history[i].id \notin ids}
    IN /\ Len(left) = Cardinality(kept)
       /\ \A i \in 1..Len(left) :
            /\ left[i].id \notin ids
            /\ \E j \in kept : /\ left[i] = history[j]
                               /\ Cardinality({k \in kept : k < j}) = i - 1

\* A step that changes the history is an archive (one new batch in front of
\* the others), a deletion (batches are taken out, the others stay as they
\* are and in their order) or a save (the batches of one id are replaced in
\* place); the last two are steps of the history view.  A step that
\* changes the working set or an import, other than the archive, leaves
\* the history unchanged.
HistoryFrame ==
  /\ history' # history =>
       \/ lastAlert' = "Producao arquivada com sucesso!" /\ Tail(history') = history
       \/ /\ activeTab = "history" /\ items' = items
          /\ Len(history') < Len(history)
          /\ \E ids \in SelectedIds : history' = RemoveBatches(history, ids)
       \/ /\ activeTab = "history" /\ items' = items
          /\ BatchIds(history') = BatchIds(history)
          /\ \E id \in {history[i].id : i \in 1..Len(history)} :
               \A i \in 1..Len(history) : history[i].id # id => history'[i] = history[i]
  /\ (/\ lastAlert' # "Producao arquivada com sucesso!"
      /\ (items' # items \/ calls' # calls \/ isImporting' # isImporting)) =>
       history' = history

\* C23: a batch of the history changes only through an operation that
\* names it.  handleSaveBatch(updatedBatch) replaces the batch whose id is
\* that of updatedBatch and no other, and changes nothing when no batch has
\* that id; handleDeleteBatches(ids), once confirmed, removes exactly the
\* batches whose ids are listed and keeps the others as they are, in their
\* order; handleRestoreBatches, the add, update and delete of an item of
\* the working set and the import leave the history unchanged.
C23_BatchChangesOnlyWhenNamed ==
  /\ [](SaveReplacesNamed /\ DeleteRemovesListed)
  /\ [][HistoryFrame]_vars

\* A batch was saved without its only item, behind a batch that kept its
\* item: only handleSaveBatch leaves a batch without items.
C23_Witness ==
  /\ Len(history) = 2
  /\ history[2].items = <<>>
  /\ Len(history[1].items) = 1

\* ----------------------------------------------------------------- C14
\* C14: the in-flight guard prevents overlapping imports: under every
\* interleaving of the invocations, a call of handleImportPDF made while an
\* earlier call has not finished returns without starting
\* importPdfsToItems, so at most one import is running at any time.
C14_NoOverlappingImports ==
  /\ Len(calls) <= 1
  /\ Len(SelectSeq(calls, LAMBDA c : c.pc = "importPdfsToItems")) <= 1

====
